---------------------------- MODULE Spec2Model ----------------------------
(***************************************************************************)
(* Design-token extraction engine of DesignMirror: the color, typography   *)
(* and spacing analyzers, the pattern-matcher utilities they call and the  *)
(* style cache they read through.                                          *)
(*                                                                         *)
(* Strings whose characters the code inspects (CSS color values) are       *)
(* sequences of one-character strings.  Floating-point quantities are      *)
(* fixed-point integers: Unit stands for 1.0 in the color pipeline.        *)
(***************************************************************************)
EXTENDS Integers, Sequences, FiniteSets, TLC

(***************************************************************************)
(* Generic helpers                                                         *)
(***************************************************************************)
Abs(x) == IF x < 0 THEN -x ELSE x

Max2(a, b) == IF a >= b THEN a ELSE b

Min2(a, b) == IF a <= b THEN a ELSE b

Range(s) == {s[i] : i \in 1..Len(s)}

RECURSIVE SumSeq(_)
SumSeq(s) == IF s = <<>> THEN 0 ELSE Head(s) + SumSeq(Tail(s))

\* e, once v has been evaluated: a loop that hands its accumulator on through
\* Then carries a value, not a growing chain of pending updates
Then(v, e) == IF v = v THEN e ELSE e

\* value of a missing key / an undefined argument; falsy like ''
Undefined == <<>>

\* styles[prop] on a CachedStyles object
Get(styles, prop) == IF prop \in DOMAIN styles THEN styles[prop] ELSE Undefined

(***************************************************************************)
(* Characters                                                              *)
(***************************************************************************)
LowerChars == <<"a","b","c","d","e","f","g","h","i","j","k","l","m",
                "n","o","p","q","r","s","t","u","v","w","x","y","z">>

UpperChars == <<"A","B","C","D","E","F","G","H","I","J","K","L","M",
                "N","O","P","Q","R","S","T","U","V","W","X","Y","Z">>

DigitChars == <<"0","1","2","3","4","5","6","7","8","9">>

\* digits produced by Number.prototype.toString(16)
HexChars == <<"0","1","2","3","4","5","6","7","8","9","a","b","c","d","e","f">>

IndexOf(seq, ch) ==
    IF \E i \in 1..Len(seq) : seq[i] = ch
    THEN CHOOSE i \in 1..Len(seq) : seq[i] = ch
    ELSE 0

toUpperCase(str) ==
    [i \in 1..Len(str) |->
        IF IndexOf(LowerChars, str[i]) > 0
        THEN UpperChars[IndexOf(LowerChars, str[i])] ELSE str[i]]

toLowerCase(str) ==
    [i \in 1..Len(str) |->
        IF IndexOf(UpperChars, str[i]) > 0
        THEN LowerChars[IndexOf(UpperChars, str[i])] ELSE str[i]]

startsWith(str, prefix) ==
    /\ Len(str) >= Len(prefix)
    /\ SubSeq(str, 1, Len(prefix)) = prefix

IsDigit(ch) == IndexOf(DigitChars, ch) > 0

\* [a-f\d] under the i flag
IsHexDigit(ch) == IndexOf(HexChars, ch) > 0 \/ IndexOf(HexChars, toLowerCase(<<ch>>)[1]) > 0

HexDigitValue(ch) == IndexOf(HexChars, toLowerCase(<<ch>>)[1]) - 1

\* parseInt of a run of decimal digits
RECURSIVE parseIntDigits(_, _)
parseIntDigits(digits, acc) ==
    IF digits = <<>> THEN acc
    ELSE parseIntDigits(Tail(digits), acc * 10 + (IndexOf(DigitChars, Head(digits)) - 1))

\* n.toString(16) for a non-negative integer
RECURSIVE toString16(_)
toString16(n) ==
    IF n < 16 THEN <<HexChars[n + 1]>>
    ELSE toString16(n \div 16) \o <<HexChars[(n % 16) + 1]>>


(***************************************************************************)
(* ColorAnalyzer: normalization of CSS color values                        *)
(***************************************************************************)
\* first position >= i that does not hold a decimal digit
RECURSIVE DigitRunEnd(_, _)
DigitRunEnd(str, i) ==
    IF i <= Len(str) /\ IsDigit(str[i]) THEN DigitRunEnd(str, i + 1) ELSE i

\* first position >= i that does not hold white space (\s*)
RECURSIVE SkipSpaces(_, _)
SkipSpaces(str, i) ==
    IF i <= Len(str) /\ str[i] = " " THEN SkipSpaces(str, i + 1) ELSE i

CharAt(str, i) == IF i >= 1 /\ i <= Len(str) THEN str[i] ELSE ""

NoMatch == [matched |-> FALSE, r |-> 0, g |-> 0, b |-> 0]

\* where the three groups (\d+) stop and start when the "(" is at position
\* open: the first runs from open + 1 to RedEnd - 1
RedEnd(str, open) == DigitRunEnd(str, open + 1)

GreenStart(str, open) == SkipSpaces(str, RedEnd(str, open) + 1)

GreenEnd(str, open) == DigitRunEnd(str, GreenStart(str, open))

BlueStart(str, open) == SkipSpaces(str, GreenEnd(str, open) + 1)

BlueEnd(str, open) == DigitRunEnd(str, BlueStart(str, open))

\* \((\d+),\s*(\d+),\s*(\d+) tried at position open
RgbGroups(str, open) ==
    IF /\ CharAt(str, open) = "("
       /\ RedEnd(str, open) > open + 1
       /\ CharAt(str, RedEnd(str, open)) = ","
       /\ GreenEnd(str, open) > GreenStart(str, open)
       /\ CharAt(str, GreenEnd(str, open)) = ","
       /\ BlueEnd(str, open) > BlueStart(str, open)
    THEN [matched |-> TRUE,
          r |-> parseIntDigits(SubSeq(str, open + 1, RedEnd(str, open) - 1), 0),
          g |-> parseIntDigits(SubSeq(str, GreenStart(str, open), GreenEnd(str, open) - 1), 0),
          b |-> parseIntDigits(SubSeq(str, BlueStart(str, open), BlueEnd(str, open) - 1), 0)]
    ELSE NoMatch

\* /rgba?\((\d+),\s*(\d+),\s*(\d+)/ tried at position i
RgbMatchAt(str, i) ==
    IF ~(CharAt(str, i) = "r" /\ CharAt(str, i + 1) = "g" /\ CharAt(str, i + 2) = "b")
    THEN NoMatch
    ELSE RgbGroups(str, IF CharAt(str, i + 3) = "a" /\ CharAt(str, i + 4) = "("
                        THEN i + 4 ELSE i + 3)

\* the match at the least of the positions where the pattern matches
LeftmostMatch(str, starts) ==
    IF starts = {} THEN NoMatch
    ELSE RgbMatchAt(str, CHOOSE i \in starts : \A j \in starts : i <= j)

\* color.match(/rgba?\((\d+),\s*(\d+),\s*(\d+)/): leftmost match in the string
RgbMatch(str) == LeftmostMatch(str, {i \in 1..Len(str) : RgbMatchAt(str, i).matched})

toHex(n) == IF Len(toString16(n)) = 1 THEN <<"0">> \o toString16(n) ELSE toString16(n)

rgbToHex(rgb) == <<"#">> \o toHex(rgb.r) \o toHex(rgb.g) \o toHex(rgb.b)

expandShortHex(hex) == <<"#", hex[2], hex[2], hex[3], hex[3], hex[4], hex[4]>>

\* null result of normalizeColor
Null == <<"null">>

\* null result of hexToRgb
NullRgb == [r |-> -1, g |-> -1, b |-> -1]

namedColors(name) ==
    CASE name = <<"w","h","i","t","e">> -> <<"#","F","F","F","F","F","F">>
      [] name = <<"b","l","a","c","k">> -> <<"#","0","0","0","0","0","0">>
      [] name = <<"r","e","d">>         -> <<"#","F","F","0","0","0","0">>
      [] name = <<"g","r","e","e","n">> -> <<"#","0","0","8","0","0","0">>
      [] name = <<"b","l","u","e">>     -> <<"#","0","0","0","0","F","F">>
      [] OTHER -> Null

\* if (match) return rgbToHex(...), and the named colors otherwise
matchToHex(color, match) ==
    IF match.matched THEN rgbToHex(match) ELSE namedColors(toLowerCase(color))

normalizeColor(color) ==
    IF startsWith(color, <<"#">>)
    THEN IF Len(color) = 4 THEN expandShortHex(color) ELSE toUpperCase(color)
    ELSE IF startsWith(color, <<"r","g","b">>)
         THEN matchToHex(color, RgbMatch(color))
         ELSE namedColors(toLowerCase(color))

\* /^#?([a-f\d]{2})([a-f\d]{2})([a-f\d]{2})$/i
hexToRgb(hex) ==
    LET body == IF startsWith(hex, <<"#">>) THEN Tail(hex) ELSE hex
    IN  IF Len(body) = 6 /\ \A i \in 1..6 : IsHexDigit(body[i])
        THEN [r |-> 16 * HexDigitValue(body[1]) + HexDigitValue(body[2]),
              g |-> 16 * HexDigitValue(body[3]) + HexDigitValue(body[4]),
              b |-> 16 * HexDigitValue(body[5]) + HexDigitValue(body[6])]
        ELSE NullRgb

isTransparent(colorValue) ==
    \/ colorValue = <<"t","r","a","n","s","p","a","r","e","n","t">>
    \/ colorValue = <<"r","g","b","a","(","0",","," ","0",","," ","0",","," ","0",")">>
    \/ colorValue = <<"r","g","b","a","(","0",",","0",",","0",",","0",")">>

(***************************************************************************)
(* ColorAnalyzer: color spaces.  Unit is 1.0; products are taken in two    *)
(* halves so that no intermediate value leaves the 32-bit integers.        *)
(***************************************************************************)
Unit == 1000 * 1000

\* a * b for fixed-point a, b >= 0
FMul(a, b) ==
    LET a1 == a \div 1000
        a0 == a % 1000
        b1 == b \div 1000
        b0 == b % 1000
    IN  a1 * b1 + ((a1 * b0 + a0 * b1 + ((a0 * b0) \div 1000)) \div 1000)

FPow3(t) == FMul(FMul(t, t), t)

FPow5(t) == FMul(FMul(FMul(t, t), FMul(t, t)), t)

\* largest t in lo..hi with t^3 <= w   (Math.pow(w, 1/3))
RECURSIVE FCbrt(_, _, _)
FCbrt(w, lo, hi) ==
    IF lo >= hi THEN lo
    ELSE LET mid == (lo + hi + 1) \div 2
         IN  IF FPow3(mid) <= w THEN FCbrt(w, mid, hi) ELSE FCbrt(w, lo, mid - 1)

\* largest t in lo..hi with t^5 <= w   (w^(1/5))
RECURSIVE FRoot5(_, _, _)
FRoot5(w, lo, hi) ==
    IF lo >= hi THEN lo
    ELSE LET mid == (lo + hi + 1) \div 2
         IN  IF FPow5(mid) <= w THEN FRoot5(w, mid, hi) ELSE FRoot5(w, lo, mid - 1)

\* Math.pow(u, 2.4) = u^2 * (u^2)^(1/5) for 0 <= u <= 1
FPow24(u) == FMul(FMul(u, u), FRoot5(FMul(u, u), 0, Unit))

\* floor of the square root of n >= 0
RECURSIVE ISqrt(_, _, _)
ISqrt(n, lo, hi) ==
    IF lo >= hi THEN lo
    ELSE LET mid == (lo + hi + 1) \div 2
         IN  IF mid * mid <= n THEN ISqrt(n, mid, hi) ELSE ISqrt(n, lo, mid - 1)

\* sRGB channel 0..255 to linear light: c > 0.04045 ? ((c+0.055)/1.055)^2.4 : c/12.92
srgbToLinear(c) ==
    IF c * 100000 > 4045 * 255
    THEN FPow24(((((c * Unit) \div 255) + 55000) * 200) \div 211)
    ELSE ((((c * Unit) \div 255) * 100) \div 1292)

\* t > 0.008856 ? t^(1/3) : 7.787 t + 16/116
labF(t) ==
    IF t > 8856 THEN FCbrt(t, 0, 2 * Unit)
    ELSE ((7787 * t) \div 1000) + ((16 * Unit) \div 116)

\* the divisions by the white point 0.95047, 1.0, 1.08883 are products with
\* the reciprocals 1.052111, 1.0, 0.918417
labOf(fx, fy, fz) ==
    [L |-> 116 * fy - 16 * Unit, a |-> 500 * (fx - fy), b |-> 200 * (fy - fz)]

\* LAB of the linear-light channels r, g, b, through x, y and z
linearToLab(r, g, b) ==
    labOf(labF(FMul(FMul(r, 412400) + FMul(g, 357600) + FMul(b, 180500), 1052111)),
          labF(FMul(r, 212600) + FMul(g, 715200) + FMul(b, 72200)),
          labF(FMul(FMul(r, 19300) + FMul(g, 119200) + FMul(b, 950500), 918417)))

rgbToLab(rgb) == linearToLab(srgbToLinear(rgb.r), srgbToLinear(rgb.g), srgbToLinear(rgb.b))

\* saturation as the fraction num/den and hue in sixtieths of a degree over
\* den (h = 60 * hnum / hden), exact in the integers 0..255
rgbToHsl(rgb) ==
    LET max == Max2(rgb.r, Max2(rgb.g, rgb.b))
        min == Min2(rgb.r, Min2(rgb.g, rgb.b))
        d   == max - min
    IN  IF max = min
        THEN [hNum |-> 0, hDen |-> 1, sNum |-> 0, sDen |-> 1]
        ELSE [hNum |-> IF max = rgb.r
                       THEN (rgb.g - rgb.b) + (IF rgb.g < rgb.b THEN 6 * d ELSE 0)
                       ELSE IF max = rgb.g
                            THEN (rgb.b - rgb.r) + 2 * d
                            ELSE (rgb.r - rgb.g) + 4 * d,
              hDen |-> d,
              \* l > 0.5 ? d / (2 - max - min) : d / (max + min), all over 255
              sNum |-> d,
              sDen |-> IF max + min > 255 THEN 510 - max - min ELSE max + min]

\* hsl.s < p/100 and hsl.s > p/100
SatBelow(hsl, p) == 100 * hsl.sNum < p * hsl.sDen

SatAbove(hsl, p) == 100 * hsl.sNum > p * hsl.sDen

\* h >= deg, h < deg and h <= deg for hsl.h = 60 * hNum / hDen
HueGeq(hsl, deg) == 60 * hsl.hNum >= deg * hsl.hDen

HueLess(hsl, deg) == 60 * hsl.hNum < deg * hsl.hDen

HueLeq(hsl, deg) == 60 * hsl.hNum <= deg * hsl.hDen

\* isRedHue without the band from 0 to 30 degrees
isRedHueUpperBandOnly(hsl) == HueGeq(hsl, 330) /\ HueLeq(hsl, 360)

isRedHue(hsl) ==
    \/ (HueGeq(hsl, 0) /\ HueLess(hsl, 30))
    \/ (HueGeq(hsl, 330) /\ HueLeq(hsl, 360))

isGreenHue(hsl) == HueGeq(hsl, 90) /\ HueLess(hsl, 150)

isYellowHue(hsl) == HueGeq(hsl, 30) /\ HueLess(hsl, 90)

isBlueHue(hsl) == HueGeq(hsl, 180) /\ HueLess(hsl, 270)

(***************************************************************************)
(* CSS color values that occur on the modelled pages                       *)
(***************************************************************************)
\* '#FF0000'
HexRedUpper == <<"#","F","F","0","0","0","0">>

\* '#ff0000'
HexRedLower == <<"#","f","f","0","0","0","0">>

\* '#f00'
HexRedShort == <<"#","f","0","0">>

\* 'rgb(255, 0, 0)'
RgbRed == <<"r","g","b","(","2","5","5",","," ","0",","," ","0",")">>

\* 'red'
NamedRed == <<"r","e","d">>

\* 'rgba(255, 0, 0, 0.5)'
RgbaRedHalf == <<"r","g","b","a","(","2","5","5",","," ","0",","," ","0",","," ","0",".","5",")">>

\* '#FF0101'
HexNearRed == <<"#","F","F","0","1","0","1">>

\* 'rgb(255, 1, 1)'
RgbNearRed == <<"r","g","b","(","2","5","5",","," ","1",","," ","1",")">>

\* '#0000FF'
HexBlue == <<"#","0","0","0","0","F","F">>

\* 'rgb(0, 0, 255)'
RgbBlue == <<"r","g","b","(","0",","," ","0",","," ","2","5","5",")">>

\* 'rgb(128, 128, 128)'
RgbGrey == <<"r","g","b","(","1","2","8",","," ","1","2","8",","," ","1","2","8",")">>

\* 'rgb(136, 136, 136)'
RgbLightGrey == <<"r","g","b","(","1","3","6",","," ","1","3","6",","," ","1","3","6",")">>

\* 'rgb(112, 120, 116)'
RgbSage == <<"r","g","b","(","1","1","2",","," ","1","2","0",","," ","1","1","6",")">>

\* 'rgb(144, 140, 136)'
RgbTaupe == <<"r","g","b","(","1","4","4",","," ","1","4","0",","," ","1","3","6",")">>

\* 'rgb(64, 0, 128)'
RgbViolet == <<"r","g","b","(","6","4",","," ","0",","," ","1","2","8",")">>

\* 'rgb(0, 128, 96)'
RgbMint == <<"r","g","b","(","0",","," ","1","2","8",","," ","9","6",")">>

\* 'rgb(128, 0, 128)'
RgbPurple == <<"r","g","b","(","1","2","8",","," ","0",","," ","1","2","8",")">>

\* 'rgb(128, 0, 0)'
RgbDarkRed == <<"r","g","b","(","1","2","8",","," ","0",","," ","0",")">>

\* 'rgb(0, 128, 0)'
RgbGreen == <<"r","g","b","(","0",","," ","1","2","8",","," ","0",")">>

\* 'rgb(255, 204, 0)'
RgbYellow == <<"r","g","b","(","2","5","5",","," ","2","0","4",","," ","0",")">>

\* 'rgb(160, 112, 160)'
RgbDusty == <<"r","g","b","(","1","6","0",","," ","1","1","2",","," ","1","6","0",")">>

\* 'rgb(0, 128, 128)'
RgbTeal == <<"r","g","b","(","0",","," ","1","2","8",","," ","1","2","8",")">>

\* 'rgba(0, 0, 0, 0)'
RgbaTransparent == <<"r","g","b","a","(","0",","," ","0",","," ","0",","," ","0",")">>

\* 'transparent'
Transparent == <<"t","r","a","n","s","p","a","r","e","n","t">>

\* 'currentcolor'
CurrentColor == <<"c","u","r","r","e","n","t","c","o","l","o","r">>

\* '#FF000080'
HexWithAlpha == <<"#","F","F","0","0","0","0","8","0">>

\* 'rgb(300, 0, 0)'
RgbOutOfRange == <<"r","g","b","(","3","0","0",","," ","0",","," ","0",")">>

ColorValues ==
    {HexRedUpper, HexRedLower, HexRedShort, RgbRed, NamedRed,
     RgbaRedHalf, HexNearRed, RgbNearRed, HexBlue, RgbBlue,
     RgbGrey, RgbLightGrey, RgbPurple, RgbDarkRed, RgbGreen,
     RgbYellow, RgbDusty, RgbTeal, RgbaTransparent, Transparent,
     CurrentColor, HexWithAlpha, RgbOutOfRange, RgbSage, RgbTaupe,
     RgbViolet, RgbMint}

\* normalizeColor of every color value on the modelled pages, computed once,
\* as the pairs <<value, normalizeColor(value)>>
NormalizedTable == {<<v, normalizeColor(v)>> : v \in ColorValues}

\* the RGB triples the color values normalize to
KnownRgb ==
    {hexToRgb(pair[2]) : pair \in {q \in NormalizedTable : q[2] # Null}} \ {NullRgb}

\* rgbToLab of every color on the modelled pages, computed once, as the pairs
\* <<rgb, rgbToLab(rgb)>>
LabTable == {<<rgb, rgbToLab(rgb)>> : rgb \in KnownRgb}

\* the second component of the pair of a table whose first component is key
Lookup(table, key) == (CHOOSE pair \in table : pair[1] = key)[2]

\* colorDistance in hundredths: floor(100 * sqrt(dL^2 + da^2 + db^2)), with the
\* LAB differences rounded down to hundredths before squaring
labDistance(lab1, lab2) ==
    LET dL == Abs(lab1.L - lab2.L) \div 10000
        da == Abs(lab1.a - lab2.a) \div 10000
        db == Abs(lab1.b - lab2.b) \div 10000
    IN  ISqrt(dL * dL + da * da + db * db, 0, 46340)

\* rgbToLab, read from the table where the table has it
Lab(rgb) == IF rgb \in KnownRgb THEN Lookup(LabTable, rgb) ELSE rgbToLab(rgb)

colorDistance(rgb1, rgb2) == labDistance(Lab(rgb1), Lab(rgb2))

(***************************************************************************)
(* ColorAnalyzer: extraction, noise filter, clustering, roles              *)
(***************************************************************************)
\* position of the entry with this hex in the insertion-ordered Map, 0 if none
FrequencyIndex(frequency, hex) ==
    IF \E i \in 1..Len(frequency) : frequency[i].hex = hex
    THEN CHOOSE i \in 1..Len(frequency) : frequency[i].hex = hex
    ELSE 0

\* normalizeColor, read from the table where the table has it
Normalized(colorValue) ==
    IF colorValue \in ColorValues THEN Lookup(NormalizedTable, colorValue)
    ELSE normalizeColor(colorValue)

\* extractColor from the normalized value on
countColor(normalized, usage, frequency) ==
    IF normalized = Null THEN frequency
    ELSE IF FrequencyIndex(frequency, normalized) = 0
         THEN IF hexToRgb(normalized) = NullRgb THEN frequency
              ELSE Append(frequency,
                          [hex |-> normalized, rgb |-> hexToRgb(normalized),
                           count |-> 1, usages |-> {usage}])
         ELSE [frequency EXCEPT
                 ![FrequencyIndex(frequency, normalized)].count = @ + 1,
                 ![FrequencyIndex(frequency, normalized)].usages = @ \cup {usage}]

extractColor(colorValue, usage, frequency) ==
    IF colorValue = Undefined \/ isTransparent(colorValue) THEN frequency
    ELSE countColor(Normalized(colorValue), usage, frequency)

\* the seven extractColor calls analyze makes for one element
ColorProperties ==
    << <<"color", "text">>, <<"backgroundColor", "background">>,
       <<"borderColor", "border">>, <<"borderTopColor", "border">>,
       <<"borderRightColor", "border">>, <<"borderBottomColor", "border">>,
       <<"borderLeftColor", "border">> >>

RECURSIVE extractElementColors(_, _, _)
extractElementColors(styles, k, frequency) ==
    IF k > Len(ColorProperties) THEN frequency
    ELSE Then(frequency,
              extractElementColors(styles, k + 1,
                  extractColor(Get(styles, ColorProperties[k][1]),
                               ColorProperties[k][2], frequency)))

\* filterEdgeCases deleting nothing
filterEdgeCasesKeepAll(colorFrequency) == colorFrequency

filterEdgeCases(colorFrequency) == SelectSeq(colorFrequency, LAMBDA info : info.count # 1)

\* colors.sort((a, b) => b.count - a.count): stable, most frequent first
RECURSIVE InsertByCount(_, _)
InsertByCount(sorted, info) ==
    IF sorted = <<>> THEN <<info>>
    ELSE IF Head(sorted).count >= info.count
         THEN <<Head(sorted)>> \o InsertByCount(Tail(sorted), info)
         ELSE <<info>> \o sorted

\* SortByCount leaving the entries in insertion order
SortByCountSkipped(seq, sorted) == sorted \o seq

RECURSIVE SortByCount(_, _)
SortByCount(seq, sorted) ==
    IF seq = <<>> THEN sorted
    ELSE SortByCount(Tail(seq), InsertByCount(sorted, Head(seq)))

\* clusters.sort((a, b) => b.totalCount - a.totalCount): stable
RECURSIVE InsertByTotalCount(_, _)
InsertByTotalCount(sorted, cluster) ==
    IF sorted = <<>> THEN <<cluster>>
    ELSE IF Head(sorted).totalCount >= cluster.totalCount
         THEN <<Head(sorted)>> \o InsertByTotalCount(Tail(sorted), cluster)
         ELSE <<cluster>> \o sorted

\* SortByTotalCount leaving the clusters in the order they were created
SortByTotalCountSkipped(seq, sorted) == sorted \o seq

RECURSIVE SortByTotalCount(_, _)
SortByTotalCount(seq, sorted) ==
    IF seq = <<>> THEN sorted
    ELSE SortByTotalCount(Tail(seq), InsertByTotalCount(sorted, Head(seq)))

\* let minDistance = Infinity
Infinity == 1000000000

\* Delta E threshold of clusterColors
DeltaEThreshold == 10

\* the inner loop of clusterColors: index of the nearest cluster, 0 for null
RECURSIVE FindNearestCluster(_, _, _, _, _)

\* NearestAfter with distance <= minDistance: of equidistant clusters the
\* latest wins
NearestAfterLatest(color, clusters, k, nearestCluster, minDistance, distance) ==
    IF distance < 100 * DeltaEThreshold /\ distance <= minDistance
    THEN FindNearestCluster(color, clusters, k + 1, k, distance)
    ELSE FindNearestCluster(color, clusters, k + 1, nearestCluster, minDistance)

\* NearestAfter without the threshold: the nearest cluster is joined however
\* far it is
NearestAfterAnyDistance(color, clusters, k, nearestCluster, minDistance, distance) ==
    IF distance < minDistance
    THEN FindNearestCluster(color, clusters, k + 1, k, distance)
    ELSE FindNearestCluster(color, clusters, k + 1, nearestCluster, minDistance)

\* the body of the inner loop for cluster k at this distance from the color
NearestAfter(color, clusters, k, nearestCluster, minDistance, distance) ==
    IF distance < 100 * DeltaEThreshold /\ distance < minDistance
    THEN FindNearestCluster(color, clusters, k + 1, k, distance)
    ELSE FindNearestCluster(color, clusters, k + 1, nearestCluster, minDistance)

FindNearestCluster(color, clusters, k, nearestCluster, minDistance) ==
    IF k > Len(clusters) THEN nearestCluster
    ELSE NearestAfter(color, clusters, k, nearestCluster, minDistance,
                      colorDistance(color.rgb, clusters[k].centroid.rgb))

\* JoinOrCreate without nearestCluster.totalCount += color.count
JoinOrCreateCountLost(color, clusters, nearestCluster) ==
    IF nearestCluster # 0
    THEN [clusters EXCEPT
            ![nearestCluster].colors =
                Append([@ EXCEPT ![1].usages = @ \cup color.usages], color),
            ![nearestCluster].centroid.usages = @ \cup color.usages]
    ELSE Append(clusters,
                [centroid |-> color, colors |-> <<color>>, totalCount |-> color.count])

\* the color joins the nearest cluster or starts a cluster of its own; the
\* centroid is the same object as the first member, so merged usages show on
\* both
JoinOrCreate(color, clusters, nearestCluster) ==
    IF nearestCluster # 0
    THEN [clusters EXCEPT
            ![nearestCluster].colors =
                Append([@ EXCEPT ![1].usages = @ \cup color.usages], color),
            ![nearestCluster].totalCount = @ + color.count,
            ![nearestCluster].centroid.usages = @ \cup color.usages]
    ELSE Append(clusters,
                [centroid |-> color, colors |-> <<color>>, totalCount |-> color.count])

\* one iteration of the outer loop of clusterColors
AddToClusters(color, clusters) ==
    JoinOrCreate(color, clusters, FindNearestCluster(color, clusters, 1, 0, Infinity))

RECURSIVE ClusterLoop(_, _)
ClusterLoop(colors, clusters) ==
    IF colors = <<>> THEN clusters
    ELSE Then(clusters, ClusterLoop(Tail(colors), AddToClusters(Head(colors), clusters)))

clusterColors(colorFrequency) ==
    SortByTotalCount(ClusterLoop(SortByCount(colorFrequency, <<>>), <<>>), <<>>)

NullInfo == [hex |-> Null, rgb |-> NullRgb, count |-> 0, usages |-> {}]

\* a role slot holding null
NoCluster == [centroid |-> NullInfo, colors |-> <<>>, totalCount |-> 0]

EmptyPalette(clusters) ==
    [primary |-> NoCluster, secondary |-> NoCluster, accent |-> <<>>, neutrals |-> <<>>,
     semantic |-> [error |-> NoCluster, success |-> NoCluster,
                   warning |-> NoCluster, info |-> NoCluster],
     cssVariables |-> <<>>, all |-> clusters]

\* AssignRole without the continue after palette.neutrals.push(cluster)
AssignRoleNoContinue(palette, cluster) ==
    LET hsl == rgbToHsl(cluster.centroid.rgb)
        pushed == IF SatBelow(hsl, 15)
                  THEN [palette EXCEPT !.neutrals = Append(@, cluster)]
                  ELSE palette
    IN  IF isRedHue(hsl) /\ pushed.semantic.error = NoCluster
        THEN [pushed EXCEPT !.semantic.error = cluster]
        ELSE IF isGreenHue(hsl) /\ pushed.semantic.success = NoCluster
        THEN [pushed EXCEPT !.semantic.success = cluster]
        ELSE IF isYellowHue(hsl) /\ pushed.semantic.warning = NoCluster
        THEN [pushed EXCEPT !.semantic.warning = cluster]
        ELSE IF isBlueHue(hsl) /\ pushed.semantic.info = NoCluster
        THEN [pushed EXCEPT !.semantic.info = cluster]
        ELSE IF pushed.primary = NoCluster /\ SatAbove(hsl, 30) /\ cluster.totalCount > 10
        THEN [pushed EXCEPT !.primary = cluster]
        ELSE IF pushed.secondary = NoCluster /\ SatAbove(hsl, 30) /\ cluster.totalCount > 5
        THEN [pushed EXCEPT !.secondary = cluster]
        ELSE IF SatAbove(hsl, 50)
        THEN [pushed EXCEPT !.accent = Append(@, cluster)]
        ELSE pushed

\* AssignRole with the hue bands tested before the saturation of neutrals
AssignRoleSemanticFirst(palette, cluster) ==
    LET hsl == rgbToHsl(cluster.centroid.rgb)
    IN  IF isRedHue(hsl) /\ palette.semantic.error = NoCluster
        THEN [palette EXCEPT !.semantic.error = cluster]
        ELSE IF isGreenHue(hsl) /\ palette.semantic.success = NoCluster
        THEN [palette EXCEPT !.semantic.success = cluster]
        ELSE IF isYellowHue(hsl) /\ palette.semantic.warning = NoCluster
        THEN [palette EXCEPT !.semantic.warning = cluster]
        ELSE IF isBlueHue(hsl) /\ palette.semantic.info = NoCluster
        THEN [palette EXCEPT !.semantic.info = cluster]
        ELSE IF SatBelow(hsl, 15)
        THEN [palette EXCEPT !.neutrals = Append(@, cluster)]
        ELSE IF palette.primary = NoCluster /\ SatAbove(hsl, 30) /\ cluster.totalCount > 10
        THEN [palette EXCEPT !.primary = cluster]
        ELSE IF palette.secondary = NoCluster /\ SatAbove(hsl, 30) /\ cluster.totalCount > 5
        THEN [palette EXCEPT !.secondary = cluster]
        ELSE IF SatAbove(hsl, 50)
        THEN [palette EXCEPT !.accent = Append(@, cluster)]
        ELSE palette

\* AssignRole with primary and secondary tested before the hue bands
AssignRolePrimaryFirst(palette, cluster) ==
    LET hsl == rgbToHsl(cluster.centroid.rgb)
    IN  IF SatBelow(hsl, 15)
        THEN [palette EXCEPT !.neutrals = Append(@, cluster)]
        ELSE IF palette.primary = NoCluster /\ SatAbove(hsl, 30) /\ cluster.totalCount > 10
        THEN [palette EXCEPT !.primary = cluster]
        ELSE IF palette.secondary = NoCluster /\ SatAbove(hsl, 30) /\ cluster.totalCount > 5
        THEN [palette EXCEPT !.secondary = cluster]
        ELSE IF isRedHue(hsl) /\ palette.semantic.error = NoCluster
        THEN [palette EXCEPT !.semantic.error = cluster]
        ELSE IF isGreenHue(hsl) /\ palette.semantic.success = NoCluster
        THEN [palette EXCEPT !.semantic.success = cluster]
        ELSE IF isYellowHue(hsl) /\ palette.semantic.warning = NoCluster
        THEN [palette EXCEPT !.semantic.warning = cluster]
        ELSE IF isBlueHue(hsl) /\ palette.semantic.info = NoCluster
        THEN [palette EXCEPT !.semantic.info = cluster]
        ELSE IF SatAbove(hsl, 50)
        THEN [palette EXCEPT !.accent = Append(@, cluster)]
        ELSE palette

\* AssignRole without the totalCount conditions of primary and secondary
AssignRoleAnyCount(palette, cluster) ==
    LET hsl == rgbToHsl(cluster.centroid.rgb)
    IN  IF SatBelow(hsl, 15)
        THEN [palette EXCEPT !.neutrals = Append(@, cluster)]
        ELSE IF isRedHue(hsl) /\ palette.semantic.error = NoCluster
        THEN [palette EXCEPT !.semantic.error = cluster]
        ELSE IF isGreenHue(hsl) /\ palette.semantic.success = NoCluster
        THEN [palette EXCEPT !.semantic.success = cluster]
        ELSE IF isYellowHue(hsl) /\ palette.semantic.warning = NoCluster
        THEN [palette EXCEPT !.semantic.warning = cluster]
        ELSE IF isBlueHue(hsl) /\ palette.semantic.info = NoCluster
        THEN [palette EXCEPT !.semantic.info = cluster]
        ELSE IF palette.primary = NoCluster /\ SatAbove(hsl, 30)
        THEN [palette EXCEPT !.primary = cluster]
        ELSE IF palette.secondary = NoCluster /\ SatAbove(hsl, 30)
        THEN [palette EXCEPT !.secondary = cluster]
        ELSE IF SatAbove(hsl, 50)
        THEN [palette EXCEPT !.accent = Append(@, cluster)]
        ELSE palette

\* the body of the loop of identifyColorRoles for one cluster
AssignRole(palette, cluster) ==
    LET hsl == rgbToHsl(cluster.centroid.rgb)
    IN  IF SatBelow(hsl, 15)
        THEN [palette EXCEPT !.neutrals = Append(@, cluster)]
        ELSE IF isRedHue(hsl) /\ palette.semantic.error = NoCluster
        THEN [palette EXCEPT !.semantic.error = cluster]
        ELSE IF isGreenHue(hsl) /\ palette.semantic.success = NoCluster
        THEN [palette EXCEPT !.semantic.success = cluster]
        ELSE IF isYellowHue(hsl) /\ palette.semantic.warning = NoCluster
        THEN [palette EXCEPT !.semantic.warning = cluster]
        ELSE IF isBlueHue(hsl) /\ palette.semantic.info = NoCluster
        THEN [palette EXCEPT !.semantic.info = cluster]
        ELSE IF palette.primary = NoCluster /\ SatAbove(hsl, 30) /\ cluster.totalCount > 10
        THEN [palette EXCEPT !.primary = cluster]
        ELSE IF palette.secondary = NoCluster /\ SatAbove(hsl, 30) /\ cluster.totalCount > 5
        THEN [palette EXCEPT !.secondary = cluster]
        ELSE IF SatAbove(hsl, 50)
        THEN [palette EXCEPT !.accent = Append(@, cluster)]
        ELSE palette

RECURSIVE RoleLoop(_, _)
RoleLoop(clusters, palette) ==
    IF clusters = <<>> THEN palette
    ELSE Then(palette, RoleLoop(Tail(clusters), AssignRole(palette, Head(clusters))))

identifyColorRoles(clusters) == RoleLoop(clusters, EmptyPalette(clusters))

(***************************************************************************)
(* ColorAnalyzer: CSS custom properties                                    *)
(***************************************************************************)
looksLikeColor(value) ==
    \/ startsWith(value, <<"#">>)
    \/ startsWith(value, <<"r","g","b">>)
    \/ startsWith(value, <<"h","s","l">>)
    \/ toLowerCase(value) \in {<<"r","e","d">>, <<"g","r","e","e","n">>, <<"b","l","u","e">>,
                               <<"w","h","i","t","e">>, <<"b","l","a","c","k">>}

\* the declarations of one CSSStyleRule
RECURSIVE RuleVariables(_, _, _)
RuleVariables(rule, i, variables) ==
    IF i > Len(rule.style) THEN variables
    ELSE RuleVariables(rule, i + 1,
            IF startsWith(rule.style[i].prop, <<"-","-">>) /\ looksLikeColor(rule.style[i].value)
            THEN Append(variables, [name |-> rule.style[i].prop,
                                    value |-> rule.style[i].value,
                                    selector |-> rule.selectorText])
            ELSE variables)

RECURSIVE SheetVariables(_, _, _)
SheetVariables(cssRules, k, variables) ==
    IF k > Len(cssRules) THEN variables
    ELSE SheetVariables(cssRules, k + 1,
            IF cssRules[k].isStyleRule THEN RuleVariables(cssRules[k], 1, variables)
            ELSE variables)

\* extractCSSVariables with the outer try only: the first sheet whose
\* cssRules getter throws ends the loop over the sheets
RECURSIVE extractCSSVariablesOuterCatch(_, _, _)
extractCSSVariablesOuterCatch(sheets, n, variables) ==
    IF n > Len(sheets) THEN variables
    ELSE IF sheets[n].accessible
         THEN extractCSSVariablesOuterCatch(sheets, n + 1,
                                            SheetVariables(sheets[n].cssRules, 1, variables))
         ELSE variables

\* a sheet whose cssRules getter throws (cross-origin) is skipped by the inner catch
RECURSIVE extractCSSVariables(_, _, _)
extractCSSVariables(sheets, n, variables) ==
    IF n > Len(sheets) THEN variables
    ELSE extractCSSVariables(sheets, n + 1,
            IF sheets[n].accessible THEN SheetVariables(sheets[n].cssRules, 1, variables)
            ELSE variables)

(***************************************************************************)
(* StyleCache                                                              *)
(***************************************************************************)
RELEVANT_PROPERTIES(category) ==
    CASE category = "colors" ->
            {"color", "backgroundColor", "borderColor", "borderTopColor", "borderRightColor",
             "borderBottomColor", "borderLeftColor", "fill", "stroke"}
      [] category = "typography" ->
            {"fontSize", "fontFamily", "fontWeight", "fontStyle", "lineHeight",
             "letterSpacing", "textAlign", "textDecoration", "textTransform"}
      [] category = "spacing" ->
            {"margin", "marginTop", "marginRight", "marginBottom", "marginLeft",
             "padding", "paddingTop", "paddingRight", "paddingBottom", "paddingLeft",
             "gap", "rowGap", "columnGap"}
      [] category = "shadows" -> {"boxShadow", "textShadow"}
      [] category = "borders" ->
            {"border", "borderWidth", "borderStyle", "borderRadius", "borderTopWidth",
             "borderRightWidth", "borderBottomWidth", "borderLeftWidth",
             "borderTopLeftRadius", "borderTopRightRadius", "borderBottomRightRadius",
             "borderBottomLeftRadius"}
      [] category = "layout" ->
            {"display", "position", "width", "height", "minWidth", "minHeight", "maxWidth",
             "maxHeight", "zIndex", "overflow", "flexDirection", "justifyContent",
             "alignItems", "gridTemplateColumns", "gridTemplateRows"}
      [] category = "visual" ->
            {"opacity", "visibility", "cursor", "transform", "transition", "animation"}

ALL_RELEVANT_PROPERTIES ==
    UNION {RELEVANT_PROPERTIES(category) :
             category \in {"colors", "typography", "spacing", "shadows", "borders",
                           "layout", "visual"}}

\* new StyleCache(): an empty WeakMap (keyed here by the element's position in
\* the collected list, which identifies the element) and zeroed counters
NewStyleCache == [cache |-> <<>>, hits |-> 0, misses |-> 0]

\* the computed values of the properties to extract, empty values left out
extractStyles(element) ==
    [property \in {q \in ALL_RELEVANT_PROPERTIES \cap DOMAIN element.computed :
                     element.computed[q] # <<>>} |-> element.computed[property]]

\* getComputedStyles answering a cache hit with an empty style record
getComputedStylesHitEmpty(sc, elements, i) ==
    IF i \in DOMAIN sc.cache
    THEN [sc |-> [sc EXCEPT !.hits = @ + 1], styles |-> <<>>]
    ELSE [sc |-> [cache |-> [j \in DOMAIN sc.cache \cup {i} |->
                                IF j = i THEN extractStyles(elements[i]) ELSE sc.cache[j]],
                  hits |-> sc.hits,
                  misses |-> sc.misses + 1],
          styles |-> extractStyles(elements[i])]

\* the cache after getComputedStyles(element) and the styles it returns
getComputedStyles(sc, elements, i) ==
    IF i \in DOMAIN sc.cache
    THEN [sc |-> [sc EXCEPT !.hits = @ + 1], styles |-> sc.cache[i]]
    ELSE [sc |-> [cache |-> [j \in DOMAIN sc.cache \cup {i} |->
                                IF j = i THEN extractStyles(elements[i]) ELSE sc.cache[j]],
                  hits |-> sc.hits,
                  misses |-> sc.misses + 1],
          styles |-> extractStyles(elements[i])]

getProperties(styles, properties) ==
    [prop \in properties \cap DOMAIN styles |-> styles[prop]]

\* getByCategory over a cache that keeps, on a miss, only the properties of
\* the category asked for
getByCategoryCachedByCategory(sc, elements, i, category) ==
    IF i \in DOMAIN sc.cache
    THEN [sc |-> [sc EXCEPT !.hits = @ + 1],
          styles |-> getProperties(sc.cache[i], RELEVANT_PROPERTIES(category))]
    ELSE [sc |-> [cache |-> [j \in DOMAIN sc.cache \cup {i} |->
                                IF j = i
                                THEN getProperties(extractStyles(elements[i]),
                                                   RELEVANT_PROPERTIES(category))
                                ELSE sc.cache[j]],
                  hits |-> sc.hits,
                  misses |-> sc.misses + 1],
          styles |-> getProperties(extractStyles(elements[i]), RELEVANT_PROPERTIES(category))]

getByCategory(sc, elements, i, category) ==
    LET got == getComputedStyles(sc, elements, i)
    IN  [sc |-> got.sc, styles |-> getProperties(got.styles, RELEVANT_PROPERTIES(category))]

(***************************************************************************)
(* ColorAnalyzer.analyze                                                   *)
(***************************************************************************)
\* Step 1 of analyze: the loop over the elements, reading through the cache
RECURSIVE ColorExtractionLoop(_, _, _, _)
ColorExtractionLoop(elements, i, sc, colorFrequency) ==
    IF i > Len(elements) THEN [sc |-> sc, colorFrequency |-> colorFrequency]
    ELSE Then(<<sc, colorFrequency>>,
              ColorExtractionLoop(elements, i + 1,
                  getByCategory(sc, elements, i, "colors").sc,
                  extractElementColors(getByCategory(sc, elements, i, "colors").styles,
                                       1, colorFrequency)))

\* Steps 2 to 5 of analyze
paletteOf(extracted, sheets) ==
    [sc |-> extracted.sc,
     palette |-> [identifyColorRoles(clusterColors(filterEdgeCases(extracted.colorFrequency)))
                    EXCEPT !.cssVariables = extractCSSVariables(sheets, 1, <<>>)]]

\* the palette analyze returns and the cache it leaves behind
ColorAnalyzer_analyze(elements, sc, sheets) ==
    paletteOf(ColorExtractionLoop(elements, 1, sc, <<>>), sheets)

(***************************************************************************)
(* Numbers.  A JavaScript number is an integer count of thousandths        *)
(* (Milli stands for 1); NaN is a value of its own that fails every        *)
(* comparison.                                                             *)
(***************************************************************************)
Milli == 10 * 100

NaN == 0 - 1000000000

NumLess(a, b) == a # NaN /\ b # NaN /\ a < b

NumLeq(a, b) == a # NaN /\ b # NaN /\ a <= b

NumGreater(a, b) == a # NaN /\ b # NaN /\ a > b

\* a * k for a number a and an integer factor k
NumTimes(a, k) == IF a = NaN THEN NaN ELSE a * k

\* a % b === 0 for numbers a and b > 0
IsMultiple(a, b) == a # NaN /\ a % b = 0

endsWith(str, suffix) ==
    /\ Len(str) >= Len(suffix)
    /\ SubSeq(str, Len(str) - Len(suffix) + 1, Len(str)) = suffix

\* up to three fraction digits, in thousandths
FractionValue(digits) ==
    (IF Len(digits) >= 1 THEN 100 * (IndexOf(DigitChars, digits[1]) - 1) ELSE 0)
    + (IF Len(digits) >= 2 THEN 10 * (IndexOf(DigitChars, digits[2]) - 1) ELSE 0)
    + (IF Len(digits) >= 3 THEN IndexOf(DigitChars, digits[3]) - 1 ELSE 0)

\* parseFloat: leading white space, a sign, digits, a fraction; NaN when the
\* string does not start with a number
\* first position after an optional sign at position start
SignEnd(str, start) ==
    IF CharAt(str, start) = "-" \/ CharAt(str, start) = "+" THEN start + 1 ELSE start

\* first position after the fraction digits when the integer digits stop at
\* i2: i2 + 1 when there is no "." at i2 or no digit after it
FractionEnd(str, i2) == IF CharAt(str, i2) = "." THEN DigitRunEnd(str, i2 + 1) ELSE i2 + 1

\* the number whose integer digits run from i1 to i2 - 1 and whose fraction
\* digits from i2 + 1 to f2 - 1
FloatValue(str, start, i1, i2, f2) ==
    IF i2 = i1 /\ f2 = i2 + 1 THEN NaN
    ELSE (IF CharAt(str, start) = "-" THEN -1 ELSE 1)
           * (parseIntDigits(SubSeq(str, i1, i2 - 1), 0) * Milli
                + FractionValue(SubSeq(str, i2 + 1, f2 - 1)))

\* parseFloat from the first position that is not white space
FloatFrom(str, start) ==
    FloatValue(str, start, SignEnd(str, start), DigitRunEnd(str, SignEnd(str, start)),
               FractionEnd(str, DigitRunEnd(str, SignEnd(str, start))))

parseFloat(str) == FloatFrom(str, SkipSpaces(str, 1))

\* String(n) for a number n >= 0: the integer part, then the fraction without
\* trailing zeros
RECURSIVE DecimalDigits(_)
DecimalDigits(n) ==
    IF n < 10 THEN <<DigitChars[n + 1]>>
    ELSE DecimalDigits(n \div 10) \o <<DigitChars[(n % 10) + 1]>>

FractionDigits(f) ==
    IF f = 0 THEN <<>>
    ELSE IF f % 100 = 0 THEN <<".", DigitChars[(f \div 100) + 1]>>
    ELSE IF f % 10 = 0
         THEN <<".", DigitChars[(f \div 100) + 1], DigitChars[((f \div 10) % 10) + 1]>>
         ELSE <<".", DigitChars[(f \div 100) + 1], DigitChars[((f \div 10) % 10) + 1],
                DigitChars[(f % 10) + 1]>>

NumberToString(n) ==
    IF n = NaN THEN <<"N","a","N">>
    ELSE DecimalDigits(n \div Milli) \o FractionDigits(n % Milli)

\* value.split(' ')
RECURSIVE split(_, _, _)
split(str, i, current) ==
    IF i > Len(str) THEN <<current>>
    ELSE IF str[i] = " " THEN <<current>> \o split(str, i + 1, <<>>)
         ELSE split(str, i + 1, Append(current, str[i]))

(***************************************************************************)
(* Pattern matcher                                                         *)
(***************************************************************************)
\* [...values].sort((a, b) => a - b)
RECURSIVE InsertAscending(_, _)
InsertAscending(sorted, v) ==
    IF sorted = <<>> THEN <<v>>
    ELSE IF Head(sorted) <= v THEN <<Head(sorted)>> \o InsertAscending(Tail(sorted), v)
         ELSE <<v>> \o sorted

RECURSIVE SortAscending(_, _)
SortAscending(seq, sorted) ==
    IF seq = <<>> THEN sorted
    ELSE SortAscending(Tail(seq), InsertAscending(sorted, Head(seq)))

\* the values of commonRatios, in thousandths
commonRatios == <<1067, 1125, 1200, 1250, 1333, 1414, 1500, 1618>>

\* Math.abs(sortedValues[i + 1] / sortedValues[i] - ratio) < tolerance, both
\* sides multiplied by |sortedValues[i]|; a division by zero gives Infinity or
\* NaN, which is never below the tolerance
RatioMatches(lower, upper, ratio, tolerance) ==
    /\ lower # 0
    /\ Abs(upper * Milli - ratio * lower) < tolerance * Abs(lower)

\* the inner loop of detectModularScale: the score of one ratio
RECURSIVE RatioScore(_, _, _, _, _)
RatioScore(sortedValues, i, ratio, tolerance, score) ==
    IF i > Len(sortedValues) - 1 THEN score
    ELSE RatioScore(sortedValues, i + 1, ratio, tolerance,
                    IF RatioMatches(sortedValues[i], sortedValues[i + 1], ratio, tolerance)
                    THEN score + 1 ELSE score)

\* BetterRatio without && confidence >= 0.5
BetterRatioNoFloor(score, bestCount, pairs) == score > bestCount

\* BetterRatio with confidence >= bestScore
BetterRatioLatest(score, bestCount, pairs) == score >= bestCount /\ 2 * score >= pairs

\* confidence > bestScore && confidence >= 0.5, for confidence = score / pairs
\* and bestScore = bestCount / pairs
BetterRatio(score, bestCount, pairs) == score > bestCount /\ 2 * score >= pairs

\* the outer loop: best is [ratio, score], ratio 0 standing for null
RECURSIVE RatioLoop(_, _, _, _)
RatioLoop(sortedValues, k, tolerance, best) ==
    IF k > Len(commonRatios) THEN best
    ELSE LET score == RatioScore(sortedValues, 1, commonRatios[k], tolerance, 0)
         IN  RatioLoop(sortedValues, k + 1, tolerance,
                       IF BetterRatio(score, best.score, Len(sortedValues) - 1)
                       THEN [ratio |-> commonRatios[k], score |-> score]
                       ELSE best)

\* null result of detectModularScale
NoScale == [ratio |-> 0, confidence |-> [num |-> 0, den |-> 1]]

\* the distinct values of a sorted array
RECURSIVE DistinctSorted(_, _)
DistinctSorted(sortedValues, distinct) ==
    IF sortedValues = <<>> THEN distinct
    ELSE DistinctSorted(Tail(sortedValues),
                        IF distinct # <<>> /\ distinct[Len(distinct)] = Head(sortedValues)
                        THEN distinct
                        ELSE Append(distinct, Head(sortedValues)))

\* detectModularScale scoring the pairs of the distinct sorted values
detectModularScaleOfDistinct(values, tolerance) ==
    IF Len(values) < 3 THEN NoScale
    ELSE LET sortedValues == DistinctSorted(SortAscending(values, <<>>), <<>>)
             best == RatioLoop(sortedValues, 1, tolerance, [ratio |-> 0, score |-> 0])
         IN  IF best.ratio # 0
             THEN [ratio |-> best.ratio,
                   confidence |-> [num |-> best.score, den |-> Len(sortedValues) - 1]]
             ELSE NoScale

\* the confidence is the fraction num / den
detectModularScale(values, tolerance) ==
    IF Len(values) < 3 THEN NoScale
    ELSE LET sortedValues == SortAscending(values, <<>>)
             best == RatioLoop(sortedValues, 1, tolerance, [ratio |-> 0, score |-> 0])
         IN  IF best.ratio # 0
             THEN [ratio |-> best.ratio,
                   confidence |-> [num |-> best.score, den |-> Len(sortedValues) - 1]]
             ELSE NoScale

\* the score of one candidate of detectBaseUnit
RECURSIVE CandidateScore(_, _, _)
CandidateScore(values, candidate, score) ==
    IF values = <<>> THEN score
    ELSE CandidateScore(Tail(values), candidate,
                        IF IsMultiple(Head(values), candidate * Milli) THEN score + 1 ELSE score)

\* BestCandidate with if (score >= threshold) in place of if (score > bestScore)
RECURSIVE BestCandidateClearing(_, _, _, _)
BestCandidateClearing(values, candidates, k, best) ==
    IF k > Len(candidates) THEN best
    ELSE LET score == CandidateScore(values, candidates[k], 0)
         IN  BestCandidateClearing(values, candidates, k + 1,
                                   IF 2 * score >= Len(values)
                                   THEN [candidate |-> candidates[k], score |-> score]
                                   ELSE best)

\* BestCandidate with score >= bestScore
RECURSIVE BestCandidateLatest(_, _, _, _)
BestCandidateLatest(values, candidates, k, best) ==
    IF k > Len(candidates) THEN best
    ELSE LET score == CandidateScore(values, candidates[k], 0)
         IN  BestCandidateLatest(values, candidates, k + 1,
                                 IF score >= best.score
                                 THEN [candidate |-> candidates[k], score |-> score]
                                 ELSE best)

\* the second loop of detectBaseUnit over the candidates in the order of the
\* list; best is [candidate, score], candidate 0 standing for null
RECURSIVE BestCandidate(_, _, _, _)
BestCandidate(values, candidates, k, best) ==
    IF k > Len(candidates) THEN best
    ELSE LET score == CandidateScore(values, candidates[k], 0)
         IN  BestCandidate(values, candidates, k + 1,
                           IF score > best.score
                           THEN [candidate |-> candidates[k], score |-> score]
                           ELSE best)

\* 0 stands for null
detectBaseUnit(values, candidates) ==
    LET best == BestCandidate(values, candidates, 1, [candidate |-> 0, score |-> 0])
    IN  IF 2 * best.score >= Len(values) THEN best.candidate ELSE 0

(***************************************************************************)
(* SpacingAnalyzer                                                         *)
(***************************************************************************)
\* the branches of parseSpacing on the unit, number being parseFloat(value)
spacingInPx(value, number) ==
    IF endsWith(value, <<"p","x">>) THEN number
    ELSE IF endsWith(value, <<"r","e","m">>) THEN NumTimes(number, 16)
    ELSE IF endsWith(value, <<"e","m">>) THEN NumTimes(number, 16)
    ELSE IF number = NaN THEN 0 ELSE number

parseSpacing(value) ==
    IF value = Undefined \/ value = <<"a","u","t","o">> \/ value = <<"0">> THEN 0
    ELSE spacingInPx(value, parseFloat(value))

\* value.split(' ').map(parseSpacing).filter(v => v > 0)
parseShorthand(value) ==
    LET tokens == split(value, 1, <<>>)
        parsed == [k \in 1..Len(tokens) |-> parseSpacing(tokens[k])]
    IN  SelectSeq(parsed, LAMBDA v : NumGreater(v, 0))

\* position of the entry with this key in the insertion-ordered Map, 0 if none
SpacingIndex(spacingValues, value) ==
    IF \E i \in 1..Len(spacingValues) : spacingValues[i].value = value
    THEN CHOOSE i \in 1..Len(spacingValues) : spacingValues[i].value = value
    ELSE 0

addSpacingValue(value, usage, spacingValues) ==
    IF NumLeq(value, 0) THEN spacingValues
    ELSE IF SpacingIndex(spacingValues, value) = 0
         THEN Append(spacingValues, [value |-> value, count |-> 1, usages |-> {usage}])
         ELSE [spacingValues EXCEPT ![SpacingIndex(spacingValues, value)].count = @ + 1,
                                    ![SpacingIndex(spacingValues, value)].usages = @ \cup {usage}]

RECURSIVE AddSpacingValues(_, _, _)
AddSpacingValues(values, usage, spacingValues) ==
    IF values = <<>> THEN spacingValues
    ELSE Then(spacingValues,
              AddSpacingValues(Tail(values), usage,
                               addSpacingValue(Head(values), usage, spacingValues)))

\* the loop of extractSpacingValues over Top, Right, Bottom, Left
RECURSIVE AddDirections(_, _, _, _)
AddDirections(styles, keys, usage, spacingValues) ==
    IF keys = <<>> THEN spacingValues
    ELSE Then(spacingValues,
              AddDirections(styles, Tail(keys), usage,
                  IF Get(styles, Head(keys)) # Undefined
                  THEN addSpacingValue(parseSpacing(Get(styles, Head(keys))), usage,
                                       spacingValues)
                  ELSE spacingValues))

DirectionKeys(property) ==
    IF property = "margin"
    THEN <<"marginTop", "marginRight", "marginBottom", "marginLeft">>
    ELSE <<"paddingTop", "paddingRight", "paddingBottom", "paddingLeft">>

extractSpacingValues(styles, property, spacingValues) ==
    AddDirections(styles, DirectionKeys(property), property,
        IF Get(styles, property) # Undefined
        THEN AddSpacingValues(parseShorthand(Get(styles, property)), property, spacingValues)
        ELSE spacingValues)

\* the three gap properties analyze reads, in order
RECURSIVE AddGaps(_, _, _)
AddGaps(styles, keys, spacingValues) ==
    IF keys = <<>> THEN spacingValues
    ELSE Then(spacingValues,
              AddGaps(styles, Tail(keys),
                  IF Get(styles, Head(keys)) # Undefined
                  THEN addSpacingValue(parseSpacing(Get(styles, Head(keys))), "gap",
                                       spacingValues)
                  ELSE spacingValues))

\* the body of the loop of analyze for one element's spacing styles: margin,
\* padding, then the gaps
extractElementSpacing(styles, spacingValues) ==
    AddGaps(styles, <<"gap", "rowGap", "columnGap">>,
        extractSpacingValues(styles, "padding",
            extractSpacingValues(styles, "margin", spacingValues)))

\* entries.sort((a, b) => b[1].count - a[1].count) is the stable sort by count
\* [...new Set(values)].sort((a, b) => a - b): the keys are distinct already
RECURSIVE scaleNamesLoop(_, _, _, _)
scaleNamesLoop(uniqueValues, scaleNames, i, scale) ==
    IF i > Min2(Len(uniqueValues), Len(scaleNames)) THEN scale
    ELSE scaleNamesLoop(uniqueValues, scaleNames, i + 1,
            Append(scale, [name |-> scaleNames[i],
                           value |-> NumberToString(uniqueValues[i]) \o <<"p","x">>]))

\* createSpacingScale without .sort((a, b) => a - b): the rungs take the most
\* frequent multiples
createSpacingScaleByCount(spacingValues, baseUnit) ==
    LET scaleNames == <<"xs", "sm", "md", "lg", "xl", "2xl", "3xl", "4xl", "5xl">>
        multiples  == SelectSeq(spacingValues,
                                LAMBDA info : IsMultiple(info.value, baseUnit * Milli))
        byCount    == SortByCount(multiples, <<>>)
        values     == [k \in 1..Len(byCount) |-> byCount[k].value]
    IN  scaleNamesLoop(values, scaleNames, 1, <<>>)

\* createSpacingScale without .filter(([value]) => value % baseUnit === 0)
createSpacingScaleUnfiltered(spacingValues, baseUnit) ==
    LET scaleNames == <<"xs", "sm", "md", "lg", "xl", "2xl", "3xl", "4xl", "5xl">>
        present    == SelectSeq(spacingValues, LAMBDA info : info.value # NaN)
        byCount    == SortByCount(present, <<>>)
        values     == [k \in 1..Len(byCount) |-> byCount[k].value]
        uniqueValues == SortAscending(values, <<>>)
    IN  scaleNamesLoop(uniqueValues, scaleNames, 1, <<>>)

\* the scale object as its entries in insertion order
createSpacingScale(spacingValues, baseUnit) ==
    LET scaleNames == <<"xs", "sm", "md", "lg", "xl", "2xl", "3xl", "4xl", "5xl">>
        multiples  == SelectSeq(spacingValues,
                                LAMBDA info : IsMultiple(info.value, baseUnit * Milli))
        byCount    == SortByCount(multiples, <<>>)
        values     == [k \in 1..Len(byCount) |-> byCount[k].value]
        uniqueValues == SortAscending(values, <<>>)
    IN  scaleNamesLoop(uniqueValues, scaleNames, 1, <<>>)

\* the candidates analyze passes to detectBaseUnit
BaseUnitCandidates == <<4, 8, 10, 16>>

\* detectBaseUnit(...) || 8
DefaultBaseUnit == 8

RECURSIVE SpacingExtractionLoop(_, _, _, _)
SpacingExtractionLoop(elements, i, sc, spacingValues) ==
    IF i > Len(elements) THEN [sc |-> sc, spacingValues |-> spacingValues]
    ELSE Then(<<sc, spacingValues>>,
              SpacingExtractionLoop(elements, i + 1,
                  getByCategory(sc, elements, i, "spacing").sc,
                  extractElementSpacing(getByCategory(sc, elements, i, "spacing").styles,
                                        spacingValues)))

\* Array.from(spacingValues.keys()).filter(v => v > 0)
positiveKeys(spacingValues) ==
    LET positive == SelectSeq(spacingValues, LAMBDA info : NumGreater(info.value, 0))
    IN  [k \in 1..Len(positive) |-> positive[k].value]

\* detectBaseUnit(values, [4, 8, 10, 16]) || 8
baseUnitOf(values) ==
    IF detectBaseUnit(values, BaseUnitCandidates) = 0 THEN DefaultBaseUnit
    ELSE detectBaseUnit(values, BaseUnitCandidates)

\* the SpacingSystem of the extracted values with this base unit
spacingSystemOf(spacingValues, baseUnit) ==
    [baseUnit |-> baseUnit,
     scale |-> createSpacingScale(spacingValues, baseUnit),
     allValues |-> SortByCount(spacingValues, <<>>)]

\* the steps of analyze after the loop over the elements
systemOf(extracted) ==
    [sc |-> extracted.sc,
     system |-> spacingSystemOf(extracted.spacingValues,
                                baseUnitOf(positiveKeys(extracted.spacingValues)))]

\* the SpacingSystem analyze returns and the cache it leaves behind
SpacingAnalyzer_analyze(elements, sc) ==
    systemOf(SpacingExtractionLoop(elements, 1, sc, <<>>))

(***************************************************************************)
(* TypographyAnalyzer                                                      *)
(***************************************************************************)
\* position of a key in an insertion-ordered Map kept as a sequence of
\* [key, ...] records, 0 if none
KeyIndex(map, key) ==
    IF \E i \in 1..Len(map) : map[i].key = key
    THEN CHOOSE i \in 1..Len(map) : map[i].key = key
    ELSE 0

\* map.set(key, (map.get(key) || 0) + 1)
CountKey(map, key) ==
    IF KeyIndex(map, key) = 0 THEN Append(map, [key |-> key, count |-> 1])
    ELSE [map EXCEPT ![KeyIndex(map, key)].count = @ + 1]

\* str.includes(part)
includes(str, part) ==
    \E i \in 1..(Len(str) - Len(part) + 1) : SubSeq(str, i, i + Len(part) - 1) = part

\* position of the first ch in str, Len(str) + 1 if none
RECURSIVE FirstIndexOf(_, _, _)
FirstIndexOf(str, ch, i) ==
    IF i > Len(str) \/ str[i] = ch THEN i ELSE FirstIndexOf(str, ch, i + 1)

RECURSIVE trimStart(_)
trimStart(str) == IF str # <<>> /\ Head(str) = " " THEN trimStart(Tail(str)) ELSE str

RECURSIVE trimEnd(_)
trimEnd(str) ==
    IF str # <<>> /\ str[Len(str)] = " " THEN trimEnd(SubSeq(str, 1, Len(str) - 1)) ELSE str

trim(str) == trimEnd(trimStart(str))

\* family.split(',')[0].trim().replace(/['"]/g, '')
normalizeFontFamily(family) ==
    SelectSeq(trim(SubSeq(family, 1, FirstIndexOf(family, ",", 1) - 1)),
              LAMBDA ch : ch # "'" /\ ch # "\"")

\* parseInt: leading white space, a sign, digits; NaN when there is no digit
parseInt(str) ==
    LET start  == SkipSpaces(str, 1)
        signed == CharAt(str, start) = "-" \/ CharAt(str, start) = "+"
        i1     == IF signed THEN start + 1 ELSE start
        i2     == DigitRunEnd(str, i1)
    IN  IF i2 = i1 THEN NaN
        ELSE IF CharAt(str, start) = "-" THEN -parseIntDigits(SubSeq(str, i1, i2 - 1), 0)
             ELSE parseIntDigits(SubSeq(str, i1, i2 - 1), 0)

\* weightMap[weight.toLowerCase()] || parseInt(weight) || 400
normalizeFontWeight(weight) ==
    LET lower == toLowerCase(weight)
    IN  IF lower = <<"n","o","r","m","a","l">> THEN 400
        ELSE IF lower = <<"b","o","l","d">> THEN 700
        ELSE IF lower = <<"l","i","g","h","t","e","r">> THEN 300
        ELSE IF lower = <<"b","o","l","d","e","r">> THEN 700
        ELSE IF parseInt(weight) = NaN \/ parseInt(weight) = 0 THEN 400
        ELSE parseInt(weight)

\* element.tagName.toLowerCase(); tag names are whole strings
TagLowerCase(tagName) ==
    CASE tagName = "P" -> "p" [] tagName = "DIV" -> "div" [] tagName = "SPAN" -> "span"
      [] tagName = "BODY" -> "body" [] tagName = "H1" -> "h1" [] tagName = "H2" -> "h2"
      [] tagName = "H3" -> "h3" [] tagName = "H4" -> "h4" [] tagName = "H5" -> "h5"
      [] tagName = "H6" -> "h6" [] tagName = "BUTTON" -> "button" [] tagName = "A" -> "a"
      [] tagName = "SMALL" -> "small" [] tagName = "CAPTION" -> "caption"
      [] tagName = "FIGCAPTION" -> "figcaption" [] OTHER -> tagName

getContext(element) ==
    LET tagName == TagLowerCase(element.tagName)
        className == toLowerCase(element.className)
    IN  IF tagName \in {"p", "div", "span", "body"} THEN "body"
        ELSE IF tagName \in {"h1", "h2", "h3", "h4", "h5", "h6"} THEN tagName
        ELSE IF tagName \in {"button", "a"} THEN "interactive"
        ELSE IF tagName \in {"small", "caption", "figcaption"} THEN "small"
        ELSE IF includes(className, <<"h","e","a","d","i","n","g">>)
                \/ includes(className, <<"t","i","t","l","e">>) THEN "heading"
        ELSE IF includes(className, <<"c","a","p","t","i","o","n">>)
                \/ includes(className, <<"l","a","b","e","l">>) THEN "small"
        ELSE IF includes(className, <<"b","u","t","t","o","n">>)
                \/ includes(className, <<"b","t","n">>) THEN "button"
        ELSE "unknown"

\* pt to px: parseFloat(size) * 1.333
fontSizeInPx(size, number) ==
    IF endsWith(size, <<"p","x">>) THEN number
    ELSE IF endsWith(size, <<"r","e","m">>) THEN NumTimes(number, 16)
    ELSE IF endsWith(size, <<"e","m">>) THEN NumTimes(number, 16)
    ELSE IF endsWith(size, <<"p","t">>)
         THEN IF number = NaN THEN NaN ELSE (number * 1333) \div 1000
    ELSE IF number = NaN THEN 0 ELSE number

\* the branches on the unit, each on parseFloat(size)
parseFontSize(size) == fontSizeInPx(size, parseFloat(size))

getMostFrequent(families) ==
    LET loop[i \in 0..Len(families)] ==
            IF i = 0 THEN [name |-> <<"s","a","n","s","-","s","e","r","i","f">>, count |-> 0]
            ELSE IF families[i].count > loop[i - 1].count
                 THEN [name |-> families[i].key, count |-> families[i].count]
                 ELSE loop[i - 1]
    IN  loop[Len(families)]

\* undefined result of getSecondMostFrequent
NoFont == [name |-> Undefined, count |-> 0]

getSecondMostFrequent(families) ==
    LET sorted == SortByCount(families, <<>>)
    IN  IF Len(sorted) < 2 THEN NoFont
        ELSE [name |-> sorted[2].key, count |-> sorted[2].count]

\* .sort((a, b) => a.px - b.px): stable
RECURSIVE InsertByPx(_, _)
InsertByPx(sorted, size) ==
    IF sorted = <<>> THEN <<size>>
    ELSE IF Head(sorted).px <= size.px THEN <<Head(sorted)>> \o InsertByPx(Tail(sorted), size)
         ELSE <<size>> \o sorted

RECURSIVE SortByPx(_, _)
SortByPx(seq, sorted) ==
    IF seq = <<>> THEN sorted
    ELSE SortByPx(Tail(seq), InsertByPx(sorted, Head(seq)))

\* s.count > 10
FrequentCount == 10

\* FindBodySize preferring a usage context over a count: the first size with
\* a body or p context, or else the first size seen more than 10 times
FindBodySizeContextFirst(numericSizes) ==
    LET inContext == {i \in 1..Len(numericSizes) :
                        \/ "body" \in numericSizes[i].contexts
                        \/ "p" \in numericSizes[i].contexts}
        frequent == {i \in 1..Len(numericSizes) : numericSizes[i].count > FrequentCount}
    IN  IF inContext # {} THEN CHOOSE i \in inContext : \A j \in inContext : i <= j
        ELSE IF frequent # {} THEN CHOOSE i \in frequent : \A j \in frequent : i <= j
        ELSE 0

\* numericSizes.find(pred): position of the first match, 0 for undefined
FindBodySize(numericSizes) ==
    LET hits == {i \in 1..Len(numericSizes) :
                    \/ "body" \in numericSizes[i].contexts
                    \/ "p" \in numericSizes[i].contexts
                    \/ numericSizes[i].count > FrequentCount}
    IN  IF hits = {} THEN 0 ELSE CHOOSE i \in hits : \A j \in hits : i <= j

FindBandSize(numericSizes) ==
    LET hits == {i \in 1..Len(numericSizes) :
                    numericSizes[i].px >= 14 * Milli /\ numericSizes[i].px <= 18 * Milli}
    IN  IF hits = {} THEN 0 ELSE CHOOSE i \in hits : \A j \in hits : i <= j

\* Categorize that leaves a rung alone once it is set
CategorizeKeepFirst(categories, size, basePx) ==
    LET rung == IF 100 * size.px < 75 * basePx THEN "xs"
                ELSE IF 10 * size.px < 9 * basePx THEN "sm"
                ELSE IF 10 * size.px > 25 * basePx THEN "xxxxl"
                ELSE IF size.px > 2 * basePx THEN "xxxl"
                ELSE IF 10 * size.px > 15 * basePx THEN "xxl"
                ELSE IF 100 * size.px > 125 * basePx THEN "xl"
                ELSE IF 10 * size.px > 11 * basePx THEN "lg"
                ELSE "base"
    IN  IF rung = "base" \/ categories[rung] # Null THEN categories
        ELSE [categories EXCEPT ![rung] = size.original]

\* the body of the bucketing loop for one size; ratio = size.px / basePx
Categorize(categories, size, basePx) ==
    IF 100 * size.px < 75 * basePx THEN [categories EXCEPT !.xs = size.original]
    ELSE IF 10 * size.px < 9 * basePx THEN [categories EXCEPT !.sm = size.original]
    ELSE IF 10 * size.px > 25 * basePx THEN [categories EXCEPT !.xxxxl = size.original]
    ELSE IF size.px > 2 * basePx THEN [categories EXCEPT !.xxxl = size.original]
    ELSE IF 10 * size.px > 15 * basePx THEN [categories EXCEPT !.xxl = size.original]
    ELSE IF 100 * size.px > 125 * basePx THEN [categories EXCEPT !.xl = size.original]
    ELSE IF 10 * size.px > 11 * basePx THEN [categories EXCEPT !.lg = size.original]
    ELSE categories

RECURSIVE CategorizeLoop(_, _, _)
CategorizeLoop(numericSizes, categories, basePx) ==
    IF numericSizes = <<>> THEN categories
    ELSE CategorizeLoop(Tail(numericSizes),
                        Categorize(categories, Head(numericSizes), basePx), basePx)

\* tolerance identifyTypeScale passes to detectModularScale (0.08)
TypeScaleTolerance == 80

\* basePx default
DefaultBasePx == 16

\* the fields 2xl, 3xl, 4xl are named xxl, xxxl, xxxxl
\* the entries with their pixel size, those of a positive size, by size
numericSizesOf(sizes) ==
    SortByPx(SelectSeq([k \in 1..Len(sizes) |->
                           [px |-> parseFontSize(sizes[k].key), count |-> sizes[k].count,
                            contexts |-> sizes[k].contexts, original |-> sizes[k].key]],
                       LAMBDA z : NumGreater(z.px, 0)),
             <<>>)

\* position of baseSizeCandidate in numericSizes, 0 for undefined
baseSizeCandidate(numericSizes) ==
    IF FindBodySize(numericSizes) # 0 THEN FindBodySize(numericSizes)
    ELSE FindBandSize(numericSizes)

\* initialCategories with base: baseSizeCandidate?.original || '16px'
initialCategoriesDefaultBase(numericSizes, candidate) ==
    [xs |-> Null, sm |-> Null,
     base |-> IF candidate # 0 THEN numericSizes[candidate].original
              ELSE <<"1","6","p","x">>,
     lg |-> Null, xl |-> Null, xxl |-> Null, xxxl |-> Null, xxxxl |-> Null,
     modularScaleRatio |->
         detectModularScale([k \in 1..Len(numericSizes) |-> numericSizes[k].px],
                            TypeScaleTolerance).ratio,
     allSizes |-> numericSizes]

\* the categories before the bucketing loop
initialCategories(numericSizes, candidate) ==
    [xs |-> Null, sm |-> Null,
     base |-> IF candidate # 0 THEN numericSizes[candidate].original ELSE Null,
     lg |-> Null, xl |-> Null, xxl |-> Null, xxxl |-> Null, xxxxl |-> Null,
     modularScaleRatio |->
         detectModularScale([k \in 1..Len(numericSizes) |-> numericSizes[k].px],
                            TypeScaleTolerance).ratio,
     allSizes |-> numericSizes]

typeScaleOf(numericSizes, candidate) ==
    CategorizeLoop(numericSizes, initialCategories(numericSizes, candidate),
                   IF candidate # 0 THEN numericSizes[candidate].px
                   ELSE DefaultBasePx * Milli)

\* the type scale of the sorted sizes
scaleOfSizes(numericSizes) == typeScaleOf(numericSizes, baseSizeCandidate(numericSizes))

identifyTypeScale(sizes) == scaleOfSizes(numericSizesOf(sizes))

identifyWeightScale(weights) ==
    SortAscending([k \in 1..Len(weights) |-> weights[k].key], <<>>)

identifyLineHeightPattern(lineHeights) ==
    LET sorted == SortByCount(lineHeights, <<>>)
    IN  [k \in 1..Min2(5, Len(sorted)) |-> sorted[k].key]

HEADING_TAGS == {"H1", "H2", "H3", "H4", "H5", "H6"}

\* fontSizes.get(size).count++ and contexts.add(context), creating the entry
\* on first sight
AddFontSize(fontSizes, size, context) ==
    IF KeyIndex(fontSizes, size) = 0
    THEN Append(fontSizes, [key |-> size, count |-> 1, contexts |-> {context}])
    ELSE [fontSizes EXCEPT ![KeyIndex(fontSizes, size)].count = @ + 1,
                           ![KeyIndex(fontSizes, size)].contexts = @ \cup {context}]

\* headingStyles[tagName] = {...}: a later heading of the same tag replaces
\* the snapshot and keeps the key's place
SetHeading(headingStyles, tagName, styles) ==
    LET snapshot == [key |-> tagName,
                     fontSize |-> Get(styles, "fontSize"),
                     fontWeight |-> Get(styles, "fontWeight"),
                     fontFamily |-> Get(styles, "fontFamily"),
                     lineHeight |-> Get(styles, "lineHeight"),
                     letterSpacing |-> Get(styles, "letterSpacing")]
    IN  IF KeyIndex(headingStyles, tagName) = 0 THEN Append(headingStyles, snapshot)
        ELSE [headingStyles EXCEPT ![KeyIndex(headingStyles, tagName)] = snapshot]

\* the body of the loop of analyze for one element
TallyElement(element, styles, t) ==
    [fontFamilies |->
        IF Get(styles, "fontFamily") # Undefined
        THEN CountKey(t.fontFamilies, normalizeFontFamily(Get(styles, "fontFamily")))
        ELSE t.fontFamilies,
     fontSizes |->
        IF Get(styles, "fontSize") # Undefined
        THEN AddFontSize(t.fontSizes, Get(styles, "fontSize"), getContext(element))
        ELSE t.fontSizes,
     fontWeights |->
        IF Get(styles, "fontWeight") # Undefined
        THEN CountKey(t.fontWeights, normalizeFontWeight(Get(styles, "fontWeight")))
        ELSE t.fontWeights,
     lineHeights |->
        IF Get(styles, "lineHeight") # Undefined
           /\ Get(styles, "lineHeight") # <<"n","o","r","m","a","l">>
        THEN CountKey(t.lineHeights, Get(styles, "lineHeight"))
        ELSE t.lineHeights,
     headingStyles |->
        IF element.tagName \in HEADING_TAGS
        THEN SetHeading(t.headingStyles, element.tagName, styles)
        ELSE t.headingStyles]

RECURSIVE TypographyLoop(_, _, _, _)
TypographyLoop(elements, i, sc, t) ==
    IF i > Len(elements) THEN [sc |-> sc, tally |-> t]
    ELSE Then(<<sc, t>>,
              TypographyLoop(elements, i + 1,
                  getByCategory(sc, elements, i, "typography").sc,
                  TallyElement(elements[i],
                               getByCategory(sc, elements, i, "typography").styles, t)))

\* the maps before the loop over the elements
EmptyTally ==
    [fontFamilies |-> <<>>, fontSizes |-> <<>>, fontWeights |-> <<>>,
     lineHeights |-> <<>>, headingStyles |-> <<>>]

\* the return statement of analyze
typographyOf(looped) ==
    [sc |-> looped.sc,
     system |-> [primaryFont |-> getMostFrequent(looped.tally.fontFamilies),
                 secondaryFont |-> getSecondMostFrequent(looped.tally.fontFamilies),
                 fontScale |-> identifyTypeScale(looped.tally.fontSizes),
                 headings |-> looped.tally.headingStyles,
                 weights |-> identifyWeightScale(looped.tally.fontWeights),
                 lineHeights |-> identifyLineHeightPattern(looped.tally.lineHeights)]]

\* the TypographySystem analyze returns and the cache it leaves behind
TypographyAnalyzer_analyze(elements, sc) ==
    typographyOf(TypographyLoop(elements, 1, sc, EmptyTally))

(***************************************************************************)
(* DOMWalker.  The DOM is a list of nodes, each with its tag name, whether *)
(* it is visible (computed display, visibility, opacity and a rectangle of *)
(* positive size), its children and the children of its shadow root, as    *)
(* positions in the list; body is the position of document.body, 0 for     *)
(* null.                                                                   *)
(***************************************************************************)
SKIP_TAGS == {"SCRIPT", "STYLE", "NOSCRIPT", "META", "LINK", "HEAD"}

\* options.batchSize || 100
BATCH_SIZE == 100

\* processed % 50 === 0
ProgressInterval == 50

\* the estimate when querySelectorAll throws
FallbackEstimate == 1000

isElementVisible(node) == node.visible

\* includeInvisible is false and there is no custom filter
shouldProcessElement(node) ==
    /\ node.tagName \notin SKIP_TAGS
    /\ isElementVisible(node)

\* includeShadowDOM is options.includeShadowDOM || true
addChildrenToQueue(node, queue) == queue \o node.children \o node.shadow

\* the children of a set of nodes
ChildrenOf(tree, ids) ==
    UNION {{tree.nodes[id].children[k] : k \in 1..Len(tree.nodes[id].children)} : id \in ids}

\* these nodes and the nodes of the light trees below them
RECURSIVE LightTree(_, _)
LightTree(tree, ids) ==
    IF ids = {} THEN {} ELSE ids \cup LightTree(tree, ChildrenOf(tree, ids))

\* root.querySelectorAll('*').length, which does not enter shadow roots; a
\* null root throws and the catch returns 1000
estimateElementCount(tree, root) ==
    IF root = 0 THEN FallbackEstimate
    ELSE Cardinality(LightTree(tree, ChildrenOf(tree, {root})))

\* 20 + Math.floor((current / total) * 40): 0 / 0 is NaN and n / 0 Infinity
ProgressValue(current, total) ==
    IF total = 0 THEN (IF current = 0 THEN NaN ELSE Infinity)
    ELSE 20 + (current * 40) \div total

\* chrome.runtime.sendMessage({type: ANALYSIS_PROGRESS, progress, stage})
sendProgress(sent, progress) ==
    Append(sent, [type |-> "ANALYSIS_PROGRESS", progress |-> progress])

\* the onProgress callback handleStartAnalysis passes to walk
onProgress(sent, current, total) == sendProgress(sent, ProgressValue(current, total))

\* a walk before its first iteration: the queue holds the root; sent are the
\* messages the walk has sent since the last await, threw is set when an
\* exception leaves the loop
NewWalk(tree) ==
    [queue |-> <<tree.body>>, processed |-> 0,
     estimatedTotal |-> estimateElementCount(tree, tree.body),
     sent |-> <<>>, threw |-> FALSE]

NoWalk == [queue |-> <<>>, processed |-> 0, estimatedTotal |-> 0, sent |-> <<>>, threw |-> FALSE]

\* visitor(element); processed++; onProgress every 50; addChildrenToQueue
Visit(tree, id, w, reporting) ==
    [w EXCEPT !.processed = @ + 1,
              !.sent = IF reporting /\ (w.processed + 1) % ProgressInterval = 0
                       THEN onProgress(@, w.processed + 1, w.estimatedTotal)
                       ELSE @,
              !.queue = addChildrenToQueue(tree.nodes[id], @)]

\* the body of the loop over the batch: reading tagName of a null element
\* throws, an element that is not to be processed is skipped with its subtree
ProcessElement(tree, id, w, reporting) ==
    IF id = 0 THEN [w EXCEPT !.threw = TRUE]
    ELSE IF ~shouldProcessElement(tree.nodes[id]) THEN w
    ELSE Visit(tree, id, w, reporting)

\* for (const element of batch), over the elements lo..hi of the batch in
\* order: the first half, then the second half, each from the walk the
\* elements before it have left
RECURSIVE ProcessBatch(_, _, _, _, _, _)

ProcessRange(tree, batch, lo, hi, w, reporting) ==
    IF lo > hi \/ w.threw THEN w
    ELSE IF lo = hi THEN ProcessElement(tree, batch[lo], w, reporting)
    ELSE ProcessBatch(tree, batch, (lo + hi) \div 2 + 1, hi,
                      ProcessBatch(tree, batch, lo, (lo + hi) \div 2, w, reporting),
                      reporting)

ProcessBatch(tree, batch, lo, hi, w, reporting) ==
    CHOOSE after \in {ProcessRange(tree, batch, lo, hi, before, reporting) : before \in {w}} : TRUE

\* one iteration of the while loop of walk, after waitForIdle has resolved:
\* batch = queue.splice(0, BATCH_SIZE) and the loop over the batch
WalkIteration(tree, w, reporting) ==
    ProcessBatch(tree, w.queue, 1, Min2(BATCH_SIZE, Len(w.queue)),
                 [w EXCEPT !.queue = SubSeq(@, Min2(BATCH_SIZE, Len(@)) + 1, Len(@)),
                           !.sent = <<>>],
                 reporting)

(***************************************************************************)
(* Content script: handleStartAnalysis                                     *)
(***************************************************************************)
\* a handler that never finds an analysis in progress
NeverInProgress(analyzing) == FALSE

\* if (isAnalyzing) { sendResponse(...); return }
AlreadyInProgress(analyzing) == analyzing

\* isAnalyzing reset at the end of the try block only
AfterTryBlockOnly(threw) == threw

\* isAnalyzing after the try statement, whether or not the try block threw
AfterFinally(threw) == FALSE

\* the progress values sent between the walk and the end of the try block,
\* each before the analyzer or generator it announces
Stages == <<65, 70, 75, 80, 85, 90, 95>>

\* sendProgress(stage) and the call it announces, for the stages from the
\* k-th; throwsAt is the stage whose call throws, 0 when none does
RECURSIVE RunStages(_, _, _)
RunStages(sent, k, throwsAt) ==
    IF k > Len(Stages) THEN [sent |-> sent, threw |-> FALSE]
    ELSE IF Stages[k] = throwsAt
    THEN [sent |-> sendProgress(sent, Stages[k]), threw |-> TRUE]
    ELSE RunStages(sendProgress(sent, Stages[k]), k + 1, throwsAt)

\* from the last onProgress(processed, processed) of walk to the end of the
\* try block: the messages sent and whether an exception was thrown
AfterWalk(w, throwsAt) ==
    RunStages(sendProgress(onProgress(w.sent, w.processed, w.processed), 60), 1, throwsAt)

\* sendProgress(98), sendProgress(100) and the ANALYSIS_COMPLETE message
Completed(sent, elementCount) ==
    Append(sendProgress(sendProgress(sent, 98), 100),
           [type |-> "ANALYSIS_COMPLETE", elementCount |-> elementCount])

\* the ANALYSIS_ERROR message of the catch block
Failed(sent) == Append(sent, [type |-> "ANALYSIS_ERROR"])

\* the responses passed to sendResponse
BusyResponse == [success |-> FALSE, error |-> "Analysis already in progress"]

ErrorResponse == [success |-> FALSE, error |-> "String(error)"]

SuccessResponse == [success |-> TRUE, error |-> ""]

(***************************************************************************)
(* Pages.  An element is its tag name, its class attribute and its         *)
(* computed style, a map from property names to values ('' when unset).    *)
(***************************************************************************)
NoClass == <<>>

\* an element whose text, background and border (shorthand and four sides)
\* colors are c, bg and bd
ColorElement(c, bg, bd) ==
    [tagName |-> "DIV", className |-> NoClass,
     computed |-> [prop \in RELEVANT_PROPERTIES("colors") \ {"fill", "stroke"} |->
                     IF prop = "color" THEN c
                     ELSE IF prop = "backgroundColor" THEN bg ELSE bd]]

ColorElements ==
    {ColorElement(RgbRed, RgbRed, RgbRed),
     ColorElement(RgbNearRed, RgbNearRed, Undefined),
     ColorElement(RgbPurple, RgbPurple, RgbPurple),
     ColorElement(RgbPurple, RgbGrey, RgbGrey),
     ColorElement(HexRedUpper, HexRedUpper, RgbRed),
     ColorElement(HexRedShort, NamedRed, CurrentColor),
     ColorElement(RgbBlue, RgbaTransparent, RgbBlue),
     ColorElement(RgbDusty, RgbDusty, Undefined),
     ColorElement(RgbLightGrey, RgbLightGrey, RgbGrey),
     ColorElement(HexWithAlpha, RgbOutOfRange, Transparent)}

\* document.styleSheets: a readable sheet with two custom properties and a
\* plain declaration, a cross-origin sheet whose rules cannot be read, and a
\* readable sheet with a non-style rule
ThemeSheet ==
    [accessible |-> TRUE,
     cssRules |-> << [isStyleRule |-> TRUE, selectorText |-> ":root",
                      style |-> << [prop |-> <<"-","-","b","g">>, value |-> HexRedShort],
                                   [prop |-> <<"-","-","g","a","p">>, value |-> <<"8","p","x">>],
                                   [prop |-> <<"c","o","l","o","r">>, value |-> NamedRed] >>] >>]

CrossOriginSheet ==
    [accessible |-> FALSE,
     cssRules |-> << [isStyleRule |-> TRUE, selectorText |-> ":root",
                      style |-> << [prop |-> <<"-","-","c","d","n">>, value |-> RgbGreen] >>] >>]

MediaSheet ==
    [accessible |-> TRUE,
     cssRules |-> << [isStyleRule |-> FALSE, selectorText |-> "", style |-> <<>>],
                     [isStyleRule |-> TRUE, selectorText |-> ".btn",
                      style |-> << [prop |-> <<"-","-","f","g">>, value |-> RgbBlue] >>] >>]

\* an element whose margin shorthand, padding-top and gap are as given
SpacingElement(margin, paddingTop, gap) ==
    [tagName |-> "DIV", className |-> NoClass,
     computed |-> [margin |-> margin, paddingTop |-> paddingTop, gap |-> gap]]

\* '8px 16px', '8px', '16px'; '24px', '12px'; 'auto', '1.5rem', 'normal 8px';
\* '10px 20px', '0', '4px'; '6px', '0.5em', '2.5px'; '16px 32px', '48px', '16px';
\* '-8px 0px 4px', '0px', '-4px'; '4px 8px 12px 20px', '28px', '36px';
\* '40px 44px 52px 56px', '60px', '64px'
SpacingElements ==
    {SpacingElement(<<"8","p","x"," ","1","6","p","x">>, <<"8","p","x">>, <<"1","6","p","x">>),
     SpacingElement(<<"2","4","p","x">>, <<"1","2","p","x">>, Undefined),
     SpacingElement(<<"a","u","t","o">>, <<"1",".","5","r","e","m">>,
                    <<"n","o","r","m","a","l"," ","8","p","x">>),
     SpacingElement(<<"1","0","p","x"," ","2","0","p","x">>, <<"0">>, <<"4","p","x">>),
     SpacingElement(<<"6","p","x">>, <<"0",".","5","e","m">>, <<"2",".","5","p","x">>),
     SpacingElement(<<"1","6","p","x"," ","3","2","p","x">>, <<"4","8","p","x">>,
                    <<"1","6","p","x">>),
     SpacingElement(<<"-","8","p","x"," ","0","p","x"," ","4","p","x">>, <<"0","p","x">>,
                    <<"-","4","p","x">>),
     SpacingElement(<<"4","p","x"," ","8","p","x"," ","1","2","p","x"," ","2","0","p","x">>,
                    <<"2","8","p","x">>, <<"3","6","p","x">>),
     SpacingElement(<<"4","0","p","x"," ","4","4","p","x"," ","5","2","p","x"," ",
                      "5","6","p","x">>,
                    <<"6","0","p","x">>, <<"6","4","p","x">>)}

\* an element with text and background color, font and margin as given
PageElement(tagName, color, fontSize, fontFamily, fontWeight, margin) ==
    [tagName |-> tagName, className |-> NoClass,
     computed |-> [color |-> color, backgroundColor |-> color, fontSize |-> fontSize,
                   fontFamily |-> fontFamily, fontWeight |-> fontWeight,
                   lineHeight |-> <<"n","o","r","m","a","l">>, margin |-> margin]]

\* <h1> red 32px Inter 700 '16px 32px'; <p> grey 16px 'Georgia' normal '8px';
\* <a> blue 1.25rem Inter bold 'auto'
PageElements ==
    {PageElement("H1", RgbRed, <<"3","2","p","x">>,
                 <<"I","n","t","e","r",","," ","s","a","n","s","-","s","e","r","i","f">>, <<"7","0","0">>, <<"1","6","p","x"," ","3","2","p","x">>),
     PageElement("P", RgbGrey, <<"1","6","p","x">>,
                 <<"'","G","e","o","r","g","i","a","'",","," ","s","e","r","i","f">>, <<"n","o","r","m","a","l">>, <<"8","p","x">>),
     PageElement("A", RgbBlue, <<"1",".","2","5","r","e","m">>,
                 <<"I","n","t","e","r",","," ","s","a","n","s","-","s","e","r","i","f">>, <<"b","o","l","d">>, <<"a","u","t","o">>)}

\* five elements on which '#FF0000' is observed 15 times (2 + 7 + 6),
\* '#FF0101' 12 times (5 + 7) and '#0000FF' 8 times (1 + 7)
ScenarioElements ==
    {ColorElement(HexRedUpper, HexRedUpper, HexNearRed),
     ColorElement(HexRedUpper, HexRedUpper, HexRedUpper),
     ColorElement(HexBlue, HexRedUpper, HexRedUpper),
     ColorElement(HexNearRed, HexNearRed, HexNearRed),
     ColorElement(HexBlue, HexBlue, HexBlue)}

\* the pages that hold each of the five elements once, in any document order
ScenarioPages ==
    {page \in [1..Cardinality(ScenarioElements) -> ScenarioElements] :
        \A i, j \in DOMAIN page : page[i] = page[j] => i = j}

StyleSheetLists == {<<>>, <<ThemeSheet, CrossOriginSheet, MediaSheet>>}

\* the sequences over a set of elements of at most n elements
PagesOf(elements, n) == UNION {[1..m -> elements] : m \in 0..n}

(***************************************************************************)
(* State                                                                   *)
(***************************************************************************)
VARIABLES
    document,      \* the visible elements of the page, in the order walk visits them
    styleSheets,   \* document.styleSheets
    allElements,   \* the elements the walker's visitor has collected
    styleCache,    \* the StyleCache the analyzers share
    ran,           \* how many times each analyzer has returned
    colors,        \* the last ColorPalette
    typography,    \* the last TypographySystem
    spacing,       \* the last SpacingSystem
    values,        \* the number array a pattern-matcher function is called with
    tolerance,     \* the tolerance it is called with, in thousandths
    modularScale,  \* the last result of detectModularScale
    candidates,    \* the candidate list detectBaseUnit is called with
    baseUnit,      \* the last result of detectBaseUnit, as [value |-> result]
    dom,           \* the DOM tree the content script walks
    isAnalyzing,   \* let isAnalyzing of the content script
    handlers,      \* each START_ANALYSIS message's call of handleStartAnalysis
    responses,     \* the calls of each message's sendResponse
    outbox         \* the messages passed to chrome.runtime.sendMessage

pageVars == <<document, styleSheets, allElements, styleCache, ran, colors, typography, spacing>>

matcherVars == <<values, tolerance, modularScale, candidates, baseUnit>>

scriptVars == <<dom, isAnalyzing, handlers, responses, outbox>>

vars == <<pageVars, matcherVars, scriptVars>>

\* the START_ANALYSIS messages a behavior may deliver
MaxRequests == 3

Requests == 1..MaxRequests

\* a document without a body
NoBodyDom == [body |-> 0, nodes |-> <<>>]

\* the content script after it has loaded on a page
ScriptLoaded(trees) ==
    /\ dom \in trees
    /\ isAnalyzing = FALSE
    /\ handlers = [r \in Requests |-> [pc |-> "unsent", walk |-> NoWalk, elementCount |-> 0]]
    /\ responses = [r \in Requests |-> <<>>]
    /\ outbox = <<>>

\* bounds of the model
MaxElements == 3

MaxRuns == 2

NotRun == [none |-> TRUE]

Analyzers == {"colors", "typography", "spacing"}

\* const styleCache = new StyleCache(); const allElements = []
InitWith(pages, sheetLists) ==
    /\ document \in pages
    /\ styleSheets \in sheetLists
    /\ allElements = <<>>
    /\ styleCache = NewStyleCache
    /\ ran = [a \in Analyzers |-> 0]
    /\ colors = NotRun
    /\ typography = NotRun
    /\ spacing = NotRun
    /\ values = <<>>
    /\ tolerance = 0
    /\ modularScale = NotRun
    /\ candidates = <<>>
    /\ baseUnit = NotRun
    /\ ScriptLoaded({NoBodyDom})

\* the visitor passed to domWalker.walk, called for the next element in
\* document order: allElements.push(element)
CollectElement ==
    /\ Len(allElements) < Len(document)
    /\ allElements' = Append(allElements, document[Len(allElements) + 1])
    /\ UNCHANGED <<document, styleSheets, styleCache, ran, colors, typography, spacing>>
    /\ UNCHANGED matcherVars
    /\ UNCHANGED scriptVars

\* the walk has visited every element
WalkDone == Len(allElements) = Len(document)

\* colors = colorAnalyzer.analyze(allElements, styleCache)
RunColorAnalyzer ==
    /\ WalkDone
    /\ ran["colors"] < MaxRuns
    /\ LET result == ColorAnalyzer_analyze(allElements, styleCache, styleSheets)
       IN  /\ colors' = result.palette
           /\ styleCache' = result.sc
    /\ ran' = [ran EXCEPT !["colors"] = @ + 1]
    /\ UNCHANGED <<document, styleSheets, allElements, typography, spacing>>
    /\ UNCHANGED matcherVars
    /\ UNCHANGED scriptVars

\* typography = typographyAnalyzer.analyze(allElements, styleCache)
RunTypographyAnalyzer ==
    /\ WalkDone
    /\ ran["typography"] < MaxRuns
    /\ LET result == TypographyAnalyzer_analyze(allElements, styleCache)
       IN  /\ typography' = result.system
           /\ styleCache' = result.sc
    /\ ran' = [ran EXCEPT !["typography"] = @ + 1]
    /\ UNCHANGED <<document, styleSheets, allElements, colors, spacing>>
    /\ UNCHANGED matcherVars
    /\ UNCHANGED scriptVars

\* spacing = spacingAnalyzer.analyze(allElements, styleCache)
RunSpacingAnalyzer ==
    /\ WalkDone
    /\ ran["spacing"] < MaxRuns
    /\ LET result == SpacingAnalyzer_analyze(allElements, styleCache)
       IN  /\ spacing' = result.system
           /\ styleCache' = result.sc
    /\ ran' = [ran EXCEPT !["spacing"] = @ + 1]
    /\ UNCHANGED <<document, styleSheets, allElements, colors, typography>>
    /\ UNCHANGED matcherVars
    /\ UNCHANGED scriptVars

(***************************************************************************)
(* The three analyzers over pages of styled elements, called in any order  *)
(* with the one StyleCache                                                 *)
(***************************************************************************)
Init == InitWith(PagesOf(PageElements, MaxElements), {<<ThemeSheet>>})

Next ==
    \/ CollectElement
    \/ RunColorAnalyzer
    \/ RunTypographyAnalyzer
    \/ RunSpacingAnalyzer

Spec == Init /\ [][Next]_vars

\* C6: each analyzer is deterministic: called again on the same element list
\* with the same styles and style sheets it returns the output it returned
\* before, clusters, sizes and allValues in the same order
AnalyzersDeterministic ==
    [][/\ (ran["colors"] > 0 /\ ran'["colors"] > ran["colors"]) => colors' = colors
       /\ (ran["typography"] > 0 /\ ran'["typography"] > ran["typography"])
             => typography' = typography
       /\ (ran["spacing"] > 0 /\ ran'["spacing"] > ran["spacing"]) => spacing' = spacing]_vars

\* every analyzer has returned twice for a page of several elements, the
\* later calls answered from the cache
AnalyzersDeterministicWitness ==
    /\ \A a \in Analyzers : ran[a] >= 2
    /\ Len(allElements) >= 2
    /\ styleCache.hits > 0
    /\ colors.all # <<>>
    /\ typography.fontScale.allSizes # <<>>
    /\ spacing.scale # <<>>

\* C19: whatever analyzers have run before on the shared StyleCache, in
\* whatever order and however often, each analyzer's output is the output it
\* gives when it runs alone on the collected elements with a new StyleCache
AnalyzersIndependent ==
    /\ colors # NotRun
          => colors = ColorAnalyzer_analyze(allElements, NewStyleCache, styleSheets).palette
    /\ typography # NotRun
          => typography = TypographyAnalyzer_analyze(allElements, NewStyleCache).system
    /\ spacing # NotRun
          => spacing = SpacingAnalyzer_analyze(allElements, NewStyleCache).system

\* the spacing and the typography analyzer have returned before the color
\* analyzer ran, one of them reading every element from the cache the other
\* filled
AnalyzersIndependentWitness ==
    /\ ran["colors"] = 0
    /\ ran["typography"] = 1
    /\ ran["spacing"] = 1
    /\ Len(allElements) >= 2
    /\ styleCache.hits = Len(allElements)
    /\ typography.fontScale.allSizes # <<>>
    /\ spacing.allValues # <<>>

(***************************************************************************)
(* The color analyzer over pages of color elements                         *)
(***************************************************************************)
InitColor == InitWith(PagesOf(ColorElements, MaxElements), StyleSheetLists)

NextColor ==
    \/ CollectElement
    \/ RunColorAnalyzer

SpecColor == InitColor /\ [][NextColor]_vars

(***************************************************************************)
(* Properties of the color analyzer                                        *)
(***************************************************************************)
\* the palette of the collected elements has been returned
ColorsReturned == ran["colors"] > 0

\* the colors of the collected elements that survive the single-occurrence
\* filter, as analyze hands them to clusterColors
SurvivingColors ==
    filterEdgeCases(ColorExtractionLoop(allElements, 1, NewStyleCache, <<>>).colorFrequency)

\* the places <<cluster, member>> of a list of clusters that hold this hex
MemberPlaces(clusters, hex) ==
    {place \in UNION {{<<c, m>> : m \in 1..Len(clusters[c].colors)} : c \in 1..Len(clusters)} :
        clusters[place[1]].colors[place[2]].hex = hex}

TotalCounts(clusters) == SumSeq([c \in 1..Len(clusters) |-> clusters[c].totalCount])

\* C1: every color that survives the single-occurrence filter is a member of
\* exactly one cluster of palette.all, and the totalCount of the clusters sum
\* to the sum of the counts of the surviving colors
ClusteringPartition ==
    ColorsReturned =>
        LET surviving == SurvivingColors
        IN  /\ \A i \in 1..Len(surviving) :
                  Cardinality(MemberPlaces(colors.all, surviving[i].hex)) = 1
            /\ TotalCounts(colors.all)
                 = SumSeq([i \in 1..Len(surviving) |-> surviving[i].count])

\* a palette of several clusters, one of which absorbed a second color
ClusteringPartitionWitness ==
    /\ ColorsReturned
    /\ Len(colors.all) >= 2
    /\ \E c \in 1..Len(colors.all) : Len(colors.all[c].colors) >= 2

\* the cluster of a single role slot, if it holds one
Occupant(slot) == IF slot = NoCluster THEN <<>> ELSE <<slot>>

\* every cluster a role of the palette holds, role by role
RoleHolders(palette) ==
    Occupant(palette.primary) \o Occupant(palette.secondary)
        \o palette.accent \o palette.neutrals
        \o Occupant(palette.semantic.error) \o Occupant(palette.semantic.success)
        \o Occupant(palette.semantic.warning) \o Occupant(palette.semantic.info)

\* C2: no cluster of a returned palette holds more than one of the roles
\* primary, secondary, accent, neutrals and the four semantic slots, and none
\* is listed twice in accent or neutrals
RoleExclusivity ==
    ColorsReturned =>
        LET holders == RoleHolders(colors)
        IN  \A i, j \in 1..Len(holders) :
                i # j => holders[i].centroid.hex # holders[j].centroid.hex

\* a palette with a neutral, a secondary and a semantic cluster
RoleExclusivityWitness ==
    /\ ColorsReturned
    /\ colors.neutrals # <<>>
    /\ colors.secondary # NoCluster
    /\ colors.semantic.error # NoCluster

\* the hex a style value is counted under, Null for a value analyze skips
ObservedHex(colorValue) ==
    IF colorValue = Undefined \/ isTransparent(colorValue) THEN Null
    ELSE IF colorValue \in ColorValues THEN Lookup(NormalizedTable, colorValue)
    ELSE normalizeColor(colorValue)

\* the hex observed at the k-th color property of the i-th element
ObservedAt(elements, i, k) ==
    ObservedHex(Get(extractStyles(elements[i]), ColorProperties[k][1]))

\* the observations <<element, property>> of a hex
Observations(elements, hex) ==
    {at \in (1..Len(elements)) \X (1..Len(ColorProperties)) :
        ObservedAt(elements, at[1], at[2]) = hex}

ObservedHexes(elements) ==
    {ObservedAt(elements, at[1], at[2]) :
        at \in (1..Len(elements)) \X (1..Len(ColorProperties))} \ {Null}

\* C5: a color whose normalized value is observed exactly once over all
\* elements and color properties is neither centroid nor member of any cluster
\* of the palette, and each totalCount is made up of the observations of the
\* cluster's members only
SingleOccurrenceAbsent ==
    ColorsReturned =>
        /\ \A hex \in ObservedHexes(allElements) :
              Cardinality(Observations(allElements, hex)) = 1 =>
                  /\ MemberPlaces(colors.all, hex) = {}
                  /\ \A c \in 1..Len(colors.all) : colors.all[c].centroid.hex # hex
        /\ \A c \in 1..Len(colors.all) :
              colors.all[c].totalCount =
                  SumSeq([m \in 1..Len(colors.all[c].colors) |->
                            Cardinality(Observations(allElements, colors.all[c].colors[m].hex))])

\* a palette returned for a page on which a color with an RGB value is
\* observed exactly once
SingleOccurrenceAbsentWitness ==
    /\ ColorsReturned
    /\ colors.all # <<>>
    /\ \E hex \in ObservedHexes(allElements) :
          /\ Cardinality(Observations(allElements, hex)) = 1
          /\ hexToRgb(hex) # NullRgb

\* C7: the centroid of every returned cluster is one of the cluster's member
\* colors, and no member has a count greater than the centroid's
CentroidMostFrequent ==
    ColorsReturned =>
        \A c \in 1..Len(colors.all) :
            LET cluster == colors.all[c]
            IN  /\ \E m \in 1..Len(cluster.colors) :
                      cluster.colors[m].hex = cluster.centroid.hex
                /\ \A m \in 1..Len(cluster.colors) :
                      cluster.colors[m].count <= cluster.centroid.count

\* a cluster that absorbed a color observed less often than its centroid
CentroidMostFrequentWitness ==
    /\ ColorsReturned
    /\ \E c \in 1..Len(colors.all) :
          \E m \in 1..Len(colors.all[c].colors) :
              /\ colors.all[c].colors[m].hex # colors.all[c].centroid.hex
              /\ colors.all[c].colors[m].count < colors.all[c].centroid.count

\* the clusters the loop of clusterColors builds for the collected elements,
\* in the order it creates them
ProducedClusters == ClusterLoop(SortByCount(SurvivingColors, <<>>), <<>>)

\* the cluster is held by no role of the palette
RoleLess(palette, cluster) ==
    \A i \in 1..Len(RoleHolders(palette)) :
        RoleHolders(palette)[i].centroid.hex # cluster.centroid.hex

\* C8: palette.all holds every cluster the clustering produced exactly once,
\* those without a role too, in descending order of totalCount
AllClustersListed ==
    ColorsReturned =>
        LET produced == ProducedClusters
        IN  /\ Len(colors.all) = Len(produced)
            /\ \A k \in 1..Len(produced) :
                  Cardinality({i \in 1..Len(colors.all) : colors.all[i] = produced[k]}) = 1
            /\ \A i, j \in 1..Len(colors.all) :
                  i < j => colors.all[i].totalCount >= colors.all[j].totalCount

\* a palette with a cluster that has no role, listed in another order than the
\* clusters were created in
AllClustersListedWitness ==
    /\ ColorsReturned
    /\ \E i \in 1..Len(colors.all) : RoleLess(colors, colors.all[i])
    /\ colors.all # ProducedClusters

\* the characters of an uppercase hex digit
UpperHexChars == {DigitChars[k] : k \in 1..Len(DigitChars)} \cup {"A", "B", "C", "D", "E", "F"}

\* '#' followed by six uppercase hex digits
IsCanonicalHex(hex) ==
    /\ Len(hex) = 7
    /\ hex[1] = "#"
    /\ \A k \in 2..7 : hex[k] \in UpperHexChars

\* every ColorInfo of a palette: the members and the centroids of its clusters
PaletteColors(palette) ==
    UNION {{palette.all[c].colors[m] : m \in 1..Len(palette.all[c].colors)}
             \cup {palette.all[c].centroid} : c \in 1..Len(palette.all)}

\* C9: every ColorInfo of the output has a hex of '#' and six uppercase hex
\* digits whatever form the observed value had, so one RGB color written in
\* two forms is one ColorInfo
CanonicalHex ==
    ColorsReturned =>
        /\ \A info \in PaletteColors(colors) : IsCanonicalHex(info.hex)
        /\ \A a, b \in PaletteColors(colors) : a.rgb = b.rgb => a.hex = b.hex

\* a style sheet of the document cannot be read
SheetUnreadable == \E n \in 1..Len(styleSheets) : ~styleSheets[n].accessible

\* the style sheets of the document without those that cannot be read
ReadableSheets == SelectSeq(styleSheets, LAMBDA sheet : sheet.accessible)

\* C20: with a style sheet that cannot be read, analyze returns a palette
\* whose clusters and roles are those of the document without that sheet, and
\* whose cssVariables hold every custom property with a color value of every
\* readable sheet, with its value and selector
UnreadableSheetSkipped ==
    (ColorsReturned /\ SheetUnreadable) =>
        /\ [colors EXCEPT !.cssVariables = <<>>]
              = [ColorAnalyzer_analyze(allElements, NewStyleCache, ReadableSheets).palette
                    EXCEPT !.cssVariables = <<>>]
        /\ \A n \in 1..Len(styleSheets) :
              styleSheets[n].accessible =>
                  \A k \in 1..Len(styleSheets[n].cssRules) :
                      LET rule == styleSheets[n].cssRules[k]
                      IN  rule.isStyleRule =>
                              \A i \in 1..Len(rule.style) :
                                  (/\ startsWith(rule.style[i].prop, <<"-","-">>)
                                   /\ looksLikeColor(rule.style[i].value))
                                      => \E v \in 1..Len(colors.cssVariables) :
                                            colors.cssVariables[v]
                                               = [name |-> rule.style[i].prop,
                                                  value |-> rule.style[i].value,
                                                  selector |-> rule.selectorText]

\* a palette with clusters returned for a document whose second sheet cannot
\* be read: the custom properties of the sheets before and after it are
\* reported
UnreadableSheetWitness ==
    /\ ColorsReturned
    /\ Len(styleSheets) = 3
    /\ ~styleSheets[2].accessible
    /\ colors.all # <<>>
    /\ Len(colors.cssVariables) = 2
    /\ colors.cssVariables[2].selector = ".btn"

(***************************************************************************)
(* The color analyzer over the pages of the scenario                       *)
(***************************************************************************)
InitScenario == InitWith(ScenarioPages, {<<>>})

NextScenario ==
    \/ CollectElement
    \/ RunColorAnalyzer

SpecScenario == InitScenario /\ [][NextScenario]_vars

\* the palette returned for samples with '#FF0000' observed 15 times,
\* '#FF0101' 12 times and '#0000FF' 8 times
ScenarioReturned ==
    /\ ColorsReturned
    /\ Cardinality(Observations(allElements, HexRedUpper)) = 15
    /\ Cardinality(Observations(allElements, HexNearRed)) = 12
    /\ Cardinality(Observations(allElements, HexBlue)) = 8

\* the clusters of the palette with centroid '#FF0000'
RedClusters(palette) ==
    {c \in 1..Len(palette.all) : palette.all[c].centroid.hex = HexRedUpper}

\* the one cluster with centroid '#FF0000' holds '#FF0101' and has totalCount 27
RedClusterAbsorbs(palette) ==
    /\ Cardinality(RedClusters(palette)) = 1
    /\ \A c \in RedClusters(palette) :
          /\ \E m \in 1..Len(palette.all[c].colors) : palette.all[c].colors[m].hex = HexNearRed
          /\ palette.all[c].totalCount = 27

\* C10, as stated: for these samples analyze returns one cluster with centroid
\* '#FF0000' that contains '#FF0101' and has totalCount 27, and that cluster is
\* the palette's primary
ScenarioRedIsPrimary ==
    ScenarioReturned =>
        /\ RedClusterAbsorbs(colors)
        /\ \A c \in RedClusters(colors) : colors.primary = colors.all[c]

\* C10, amended: for these samples analyze returns one cluster with centroid
\* '#FF0000' that contains '#FF0101' and has totalCount 27; that cluster is the
\* palette's semantic.error, the red hue band being tested before primary,
\* and the palette has no primary
ScenarioRedIsError ==
    ScenarioReturned =>
        /\ RedClusterAbsorbs(colors)
        /\ \A c \in RedClusters(colors) : colors.semantic.error = colors.all[c]
        /\ colors.primary = NoCluster

\* the palette of the scenario has been returned, with its two clusters
ScenarioRedIsErrorWitness ==
    /\ ScenarioReturned
    /\ Len(colors.all) = 2

(***************************************************************************)
(* The spacing analyzer over pages of spacing elements                     *)
(***************************************************************************)
InitSpacing == InitWith(PagesOf(SpacingElements, MaxElements), {<<>>})

NextSpacing ==
    \/ CollectElement
    \/ RunSpacingAnalyzer

SpecSpacing == InitSpacing /\ [][NextSpacing]_vars

\* the SpacingSystem of the collected elements has been returned
SpacingReturned == ran["spacing"] > 0

\* C3: the pixel number of every value of the returned scale is an integer
\* multiple of the returned baseUnit
BaseUnitDivisibility ==
    SpacingReturned =>
        \A k \in 1..Len(spacing.scale) :
            LET px == parseFloat(spacing.scale[k].value)
            IN  /\ px # NaN
                /\ px % (spacing.baseUnit * Milli) = 0

\* a scale of several values returned for a page that also has a spacing value
\* the base unit does not divide
BaseUnitDivisibilityWitness ==
    /\ SpacingReturned
    /\ Len(spacing.scale) >= 2
    /\ \E i \in 1..Len(spacing.allValues) :
          /\ spacing.allValues[i].value # NaN
          /\ spacing.allValues[i].value % (spacing.baseUnit * Milli) # 0

\* the number of spacing inputs of an element that parse to a positive number
\* of pixels: the tokens of the margin and padding shorthands, the per-side
\* values and the gaps
PositiveInputs(styles) ==
    LET one(key) == IF NumGreater(parseSpacing(Get(styles, key)), 0) THEN 1 ELSE 0
    IN  Len(parseShorthand(Get(styles, "margin"))) + Len(parseShorthand(Get(styles, "padding")))
          + one("marginTop") + one("marginRight") + one("marginBottom") + one("marginLeft")
          + one("paddingTop") + one("paddingRight") + one("paddingBottom")
          + one("paddingLeft") + one("gap") + one("rowGap") + one("columnGap")

\* C17: every observation of allValues has a value above 0 and a count of at
\* least 1, no pixel value appears twice, the counts descend, and only the
\* inputs that parse to a positive number of pixels are counted ('0', zero
\* with a unit, 'auto' and negative lengths are not)
ObservationsPositive ==
    SpacingReturned =>
        /\ \A i \in 1..Len(spacing.allValues) :
              /\ NumGreater(spacing.allValues[i].value, 0)
              /\ spacing.allValues[i].count >= 1
        /\ \A i, j \in 1..Len(spacing.allValues) :
              i # j => spacing.allValues[i].value # spacing.allValues[j].value
        /\ \A i, j \in 1..Len(spacing.allValues) :
              i < j => spacing.allValues[i].count >= spacing.allValues[j].count
        /\ SumSeq([i \in 1..Len(spacing.allValues) |-> spacing.allValues[i].count])
              = SumSeq([e \in 1..Len(allElements) |-> PositiveInputs(allElements[e].computed)])

\* the distinct observed values that are exact multiples of the base unit
ObservedMultiples ==
    {spacing.allValues[i].value : i \in {j \in 1..Len(spacing.allValues) :
         IsMultiple(spacing.allValues[j].value, spacing.baseUnit * Milli)}}

\* the names of the rungs, in order
RungOrder == <<"xs", "sm", "md", "lg", "xl", "2xl", "3xl", "4xl", "5xl">>

\* C18: the scale holds the min(9, n) smallest of the n distinct observed
\* multiples of the base unit, on the rungs xs to 5xl in that order without
\* a gap and strictly ascending; an observed value that is not a multiple of
\* the base unit is in allValues and not in the scale
ScaleHoldsSmallestMultiples ==
    SpacingReturned =>
        LET px(k) == parseFloat(spacing.scale[k].value)
            held == {px(k) : k \in 1..Len(spacing.scale)}
        IN  /\ Len(spacing.scale) = Min2(9, Cardinality(ObservedMultiples))
            /\ \A k \in 1..Len(spacing.scale) :
                  /\ spacing.scale[k].name = RungOrder[k]
                  /\ spacing.scale[k].value = NumberToString(px(k)) \o <<"p","x">>
            /\ \A k \in 1..(Len(spacing.scale) - 1) : px(k) < px(k + 1)
            /\ held \subseteq ObservedMultiples
            /\ \A v \in ObservedMultiples \ held : \A w \in held : w < v
            /\ \A i \in 1..Len(spacing.allValues) :
                  ~IsMultiple(spacing.allValues[i].value, spacing.baseUnit * Milli)
                      => spacing.allValues[i].value \notin held

\* more than nine multiples of the base unit are observed, next to a value
\* that is not a multiple: the nine rungs are full and multiples are left out
ScaleHoldsSmallestWitness ==
    /\ SpacingReturned
    /\ Len(spacing.scale) = 9
    /\ Cardinality(ObservedMultiples) > 9
    /\ \E i \in 1..Len(spacing.allValues) :
          ~IsMultiple(spacing.allValues[i].value, spacing.baseUnit * Milli)

(***************************************************************************)
(* The typography analyzer over pages of text elements                     *)
(***************************************************************************)
\* an element of the given tag and font size
TypographyElement(tagName, fontSize) ==
    PageElement(tagName, RgbGrey, fontSize, <<"I","n","t","e","r">>, <<"4","0","0">>,
                <<"8","p","x">>)

\* <p> 16px, <h1> 32px, <a> 1.25rem, <small> 12px, <h2> 2em, <div> 0px,
\* <li> larger, <h3> 15pt
TypographyElements ==
    {TypographyElement("P", <<"1","6","p","x">>),
     TypographyElement("H1", <<"3","2","p","x">>),
     TypographyElement("A", <<"1",".","2","5","r","e","m">>),
     TypographyElement("SMALL", <<"1","2","p","x">>),
     TypographyElement("H2", <<"2","e","m">>),
     TypographyElement("DIV", <<"0","p","x">>),
     TypographyElement("LI", <<"l","a","r","g","e","r">>),
     TypographyElement("H3", <<"1","5","p","t">>)}

InitTypography == InitWith(PagesOf(TypographyElements, MaxElements), {<<>>})

NextTypography ==
    \/ CollectElement
    \/ RunTypographyAnalyzer

SpecTypography == InitTypography /\ [][NextTypography]_vars

\* the TypographySystem of the collected elements has been returned
TypographyReturned == ran["typography"] > 0

\* the named rungs of a TypeScale
RungNames == {"xs", "sm", "base", "lg", "xl", "xxl", "xxxl", "xxxxl"}

\* C16: each non-null named rung of the returned TypeScale is the raw value
\* of an entry of allSizes that is the font size of a collected element, and
\* modularScaleRatio is null or one of the eight table ratios
RungsAreObservedSizes ==
    TypographyReturned =>
        LET fontScale == typography.fontScale
        IN  /\ \A name \in RungNames :
                  fontScale[name] # Null =>
                      /\ \E i \in 1..Len(fontScale.allSizes) :
                            fontScale.allSizes[i].original = fontScale[name]
                      /\ \E e \in 1..Len(allElements) :
                            allElements[e].computed.fontSize = fontScale[name]
            /\ \/ fontScale.modularScaleRatio = 0
               \/ \E k \in 1..Len(commonRatios) :
                     commonRatios[k] = fontScale.modularScaleRatio
            /\ Len(commonRatios) = 8

\* a TypeScale with a ratio, a base and two more rungs
RungsAreObservedSizesWitness ==
    /\ TypographyReturned
    /\ typography.fontScale.modularScaleRatio # 0
    /\ typography.fontScale.base # Null
    /\ Cardinality({name \in RungNames : typography.fontScale[name] # Null}) >= 3

(***************************************************************************)
(* detectModularScale over bounded number arrays                           *)
(***************************************************************************)
\* the longest array
MaxValues == 4

\* the numbers of the arrays, in thousandths: 8, 9, 10, 12, 12.5, 15, 0, -8
ScaleValues == {8000, 9000, 10000, 12000, 12500, 15000, 0, -8000}

\* the default tolerance 0.05 and the 0.08 identifyTypeScale passes
Tolerances == {50, 80}

\* the font sizes 12, 12, 12, 16, 16, 16, 16, 20, 20, 25, 25, 32, in thousandths
ScenarioFontSizes ==
    <<12000, 12000, 12000, 16000, 16000, 16000, 16000, 20000, 20000, 25000, 25000, 32000>>

\* sizeValues of identifyTypeScale when those sizes are observed: the px of
\* the keys of the fontSizes map, one per distinct size, in ascending order
ScenarioSizeValues == <<12000, 16000, 20000, 25000, 32000>>

InitScale ==
    /\ document = <<>>
    /\ styleSheets = <<>>
    /\ allElements = <<>>
    /\ styleCache = NewStyleCache
    /\ ran = [a \in Analyzers |-> 0]
    /\ colors = NotRun
    /\ typography = NotRun
    /\ spacing = NotRun
    /\ values \in UNION {[1..n -> ScaleValues] : n \in 0..MaxValues}
                      \cup {ScenarioFontSizes, ScenarioSizeValues}
    /\ tolerance \in Tolerances
    /\ modularScale = NotRun
    /\ candidates = <<>>
    /\ baseUnit = NotRun
    /\ ScriptLoaded({NoBodyDom})

\* modularScale = detectModularScale(values, tolerance)
CallDetectModularScale ==
    /\ modularScale = NotRun
    /\ modularScale' = detectModularScale(values, tolerance)
    /\ UNCHANGED <<values, tolerance, candidates, baseUnit>>
    /\ UNCHANGED pageVars
    /\ UNCHANGED scriptVars

NextScale == CallDetectModularScale

SpecScale == InitScale /\ [][NextScale]_vars

\* the number of adjacent pairs of the sorted values that match the ratio
MatchingPairs(sortedValues, ratio, tol) ==
    Cardinality({i \in 1..(Len(sortedValues) - 1) :
                   RatioMatches(sortedValues[i], sortedValues[i + 1], ratio, tol)})

\* detectModularScale has returned a ratio
ScaleFound == modularScale # NotRun /\ modularScale # NoScale

ScenarioSizesCall == modularScale # NotRun /\ values = ScenarioFontSizes

\* C12: for the font sizes 12, 12, 12, 16, 16, 16, 16, 20, 20, 25, 25, 32
\* detectModularScale reports no ratio at the default tolerance and 1.067 with
\* confidence 7/11 at the tolerance 0.08; for the distinct sizes 12, 16, 20,
\* 25, 32 that identifyTypeScale passes with the tolerance 0.08 it reports
\* 1.25 with confidence 3/4
ScenarioScaleOfDistinctSizes ==
    /\ (ScenarioSizesCall /\ tolerance = 50) => modularScale = NoScale
    /\ (ScenarioSizesCall /\ tolerance = TypeScaleTolerance)
          => modularScale = [ratio |-> 1067, confidence |-> [num |-> 7, den |-> 11]]
    /\ (modularScale # NotRun /\ values = ScenarioSizeValues /\ tolerance = TypeScaleTolerance)
          => modularScale = [ratio |-> 1250, confidence |-> [num |-> 3, den |-> 4]]

\* C12 as stated: for the twelve font sizes detectModularScale reports 1.25
\* with confidence at least 0.5
ScenarioScaleIsMajorThird ==
    ScenarioSizesCall =>
        /\ modularScale.ratio = 1250
        /\ 2 * modularScale.confidence.num >= modularScale.confidence.den

\* detectModularScale has returned for the twelve font sizes with the default
\* tolerance
ScenarioScaleWitness ==
    /\ ScenarioSizesCall
    /\ tolerance = 50
    /\ modularScale = NoScale

\* the number of adjacent pairs of the sorted values that Matches takes for
\* a match of the ratio
PairsMatching(Matches(_, _, _, _), sortedValues, ratio, tol) ==
    Cardinality({i \in 1..(Len(sortedValues) - 1) :
                   Matches(sortedValues[i], sortedValues[i + 1], ratio, tol)})

\* the largest number of matching pairs of a table ratio
TopMatching(Matches(_, _, _, _), sortedValues, tol) ==
    CHOOSE n \in 0..Len(sortedValues) :
        /\ \E k \in 1..Len(commonRatios) :
              PairsMatching(Matches, sortedValues, commonRatios[k], tol) = n
        /\ \A k \in 1..Len(commonRatios) :
              PairsMatching(Matches, sortedValues, commonRatios[k], tol) <= n

\* the first table ratio with that number of matching pairs
FirstTopRatio(Matches(_, _, _, _), sortedValues, tol) ==
    LET top == TopMatching(Matches, sortedValues, tol)
        k == CHOOSE j \in 1..Len(commonRatios) :
                 /\ PairsMatching(Matches, sortedValues, commonRatios[j], tol) = top
                 /\ \A h \in 1..(j - 1) :
                       PairsMatching(Matches, sortedValues, commonRatios[h], tol) < top
    IN  commonRatios[k]

\* C14: detectModularScale returns null for fewer than 3 values; otherwise,
\* when the largest match fraction of a table ratio is at least 0.5, it
\* returns the first table ratio that has that fraction, with the fraction as
\* confidence
HighestFractionFirst ==
    modularScale # NotRun =>
        LET sortedValues == SortAscending(values, <<>>)
            pairs == Len(sortedValues) - 1
            top == TopMatching(RatioMatches, sortedValues, tolerance)
        IN  /\ Len(values) < 3 => modularScale = NoScale
            /\ (Len(values) >= 3 /\ 2 * top >= pairs)
                  => modularScale =
                        [ratio |-> FirstTopRatio(RatioMatches, sortedValues, tolerance),
                         confidence |-> [num |-> top, den |-> pairs]]

\* a ratio is returned while a later ratio of the table has the same match
\* fraction
HighestFractionTieWitness ==
    /\ ScaleFound
    /\ Len(values) >= 3
    /\ \E k \in 1..Len(commonRatios) :
          /\ commonRatios[k] > modularScale.ratio
          /\ MatchingPairs(SortAscending(values, <<>>), commonRatios[k], tolerance)
                = modularScale.confidence.num

\* |a - r| / r < tolerance for the actual ratio a = upper / lower, both sides
\* multiplied by r |lower|; the values of the arrays are multiples of 0.5,
\* counted here in halves
MatchesRelative(lower, upper, ratio, tol) ==
    /\ lower # 0
    /\ Abs((upper \div 500) * Milli - ratio * (lower \div 500)) * Milli
          < tol * ratio * Abs(lower \div 500)

\* what detectModularScale returns when a pair counts as a match by Matches
ScaleBy(Matches(_, _, _, _), vals, tol) ==
    LET sortedValues == SortAscending(vals, <<>>)
        pairs == Len(sortedValues) - 1
        top == TopMatching(Matches, sortedValues, tol)
    IN  IF Len(vals) >= 3 /\ 2 * top >= pairs
        THEN [ratio |-> FirstTopRatio(Matches, sortedValues, tol),
              confidence |-> [num |-> top, den |-> pairs]]
        ELSE NoScale

\* C15: the tolerance of detectModularScale is relative to the candidate: the
\* result is the one obtained when an adjacent pair counts as a match for the
\* ratio r exactly when its actual ratio a satisfies |a - r| / r < tolerance
ToleranceRelativeToCandidate ==
    modularScale # NotRun => modularScale = ScaleBy(MatchesRelative, values, tolerance)

(***************************************************************************)
(* detectBaseUnit over arrays of numbers and candidate lists               *)
(***************************************************************************)
MaxCandidates == 2

\* the numbers of the arrays, in thousandths: 0, 2.5, 4, 8, 10
UnitValues == {0, 2500, 4000, 8000, 10000}

\* the spacing values 4, 8, 8, 12, 16, 16, 24, 32, in thousandths
ScenarioSpacingValues == <<4000, 8000, 8000, 12000, 16000, 16000, 24000, 32000>>

\* Array.from(spacingValues.keys()) when those values are observed in that
\* order: the distinct values in the order of their first observation
ScenarioSpacingKeys == <<4000, 8000, 12000, 16000, 24000, 32000>>

\* the list SpacingAnalyzer passes and every list of up to MaxCandidates of
\* its members
CandidateLists ==
    {BaseUnitCandidates}
        \cup UNION {[1..n -> {BaseUnitCandidates[k] : k \in 1..Len(BaseUnitCandidates)}] :
                      n \in 0..MaxCandidates}

InitBaseUnit ==
    /\ document = <<>>
    /\ styleSheets = <<>>
    /\ allElements = <<>>
    /\ styleCache = NewStyleCache
    /\ ran = [a \in Analyzers |-> 0]
    /\ colors = NotRun
    /\ typography = NotRun
    /\ spacing = NotRun
    /\ values \in UNION {[1..n -> UnitValues] : n \in 0..MaxValues}
                      \cup {ScenarioSpacingValues, ScenarioSpacingKeys}
    /\ tolerance = 0
    /\ modularScale = NotRun
    /\ candidates \in CandidateLists
    /\ baseUnit = NotRun
    /\ ScriptLoaded({NoBodyDom})

\* baseUnit = detectBaseUnit(values, candidates)
CallDetectBaseUnit ==
    /\ baseUnit = NotRun
    /\ baseUnit' = [value |-> detectBaseUnit(values, candidates)]
    /\ UNCHANGED <<values, tolerance, modularScale, candidates>>
    /\ UNCHANGED pageVars
    /\ UNCHANGED scriptVars

NextBaseUnit == CallDetectBaseUnit

SpecBaseUnit == InitBaseUnit /\ [][NextBaseUnit]_vars

\* detectBaseUnit has returned
BaseUnitReturned == baseUnit # NotRun

\* the call of the scenario: the spacing values 4, 8, 8, 12, 16, 16, 24, 32,
\* as observed or as the distinct keys the analyzer passes, with the
\* candidates 4, 8, 10, 16
ScenarioCall ==
    /\ BaseUnitReturned
    /\ values \in {ScenarioSpacingValues, ScenarioSpacingKeys}
    /\ candidates = BaseUnitCandidates

\* C11: for the spacing values 4, 8, 8, 12, 16, 16, 24, 32 and the candidates
\* 4, 8, 10, 16 the detected base unit is 4, the candidate that divides all of
\* the values, and SpacingAnalyzer reports 4 for the distinct values
ScenarioBaseUnitIsFour ==
    ScenarioCall => baseUnit.value = 4 /\ baseUnitOf(values) = 4

\* C11 as stated: the detected base unit of the scenario is 8
ScenarioBaseUnitIsEight ==
    ScenarioCall => baseUnit.value = 8

\* detectBaseUnit has returned for the eight observed values of the scenario
ScenarioBaseUnitWitness ==
    /\ ScenarioCall
    /\ values = ScenarioSpacingValues
    /\ baseUnit.value \in 1..16

\* the number of values the candidate divides exactly
Divided(vals, candidate) ==
    Cardinality({i \in 1..Len(vals) : IsMultiple(vals[i], candidate * Milli)})

\* the largest number of values a candidate of the list divides
MostDivided(vals, list) ==
    CHOOSE n \in 0..Len(vals) :
        /\ \E k \in 1..Len(list) : Divided(vals, list[k]) = n
        /\ \A k \in 1..Len(list) : Divided(vals, list[k]) <= n

\* the earliest candidate of the list that divides that many values
EarliestBest(vals, list) ==
    LET k == CHOOSE j \in 1..Len(list) :
                 /\ Divided(vals, list[j]) = MostDivided(vals, list)
                 /\ \A h \in 1..(j - 1) : Divided(vals, list[h]) < MostDivided(vals, list)
    IN  list[k]

\* C13: detectBaseUnit returns the earliest candidate of the list among those
\* that divide the largest number of values, provided that number is at least
\* one and at least half the number of values, and null in every other case
BaseUnitIsEarliestBest ==
    BaseUnitReturned =>
        baseUnit.value = IF /\ candidates # <<>>
                            /\ MostDivided(values, candidates) >= 1
                            /\ 2 * MostDivided(values, candidates) >= Len(values)
                         THEN EarliestBest(values, candidates)
                         ELSE 0

\* C13 as stated: the number the best candidate divides need only be at least
\* half the number of values
BaseUnitIsEarliestClearing ==
    BaseUnitReturned =>
        baseUnit.value = IF /\ candidates # <<>>
                            /\ 2 * MostDivided(values, candidates) >= Len(values)
                         THEN EarliestBest(values, candidates)
                         ELSE 0

\* two different candidates tie for the largest number of values and the
\* earlier one is returned
BaseUnitTieWitness ==
    /\ BaseUnitReturned
    /\ Len(candidates) = 2
    /\ candidates[1] # candidates[2]
    /\ Divided(values, candidates[1]) = Divided(values, candidates[2])
    /\ Divided(values, candidates[1]) \in 1..(Len(values) - 1)
    /\ baseUnit.value = candidates[1]

(***************************************************************************)
(* The color analyzer over pages of perceptually close colors: sage and   *)
(* taupe lie just over the threshold from each other, grey lies at the     *)
(* same distance (to the hundredth) from both and light grey lies within   *)
(* the threshold of both, nearer to taupe                                  *)
(***************************************************************************)
ClusterElements ==
    {ColorElement(RgbTaupe, RgbTaupe, RgbSage),
     ColorElement(RgbGrey, RgbGrey, Undefined),
     ColorElement(RgbLightGrey, RgbLightGrey, Undefined),
     ColorElement(RgbGrey, RgbLightGrey, RgbGrey),
     ColorElement(RgbRed, RgbRed, Undefined)}

InitCluster == InitWith(PagesOf(ClusterElements, MaxElements), {<<>>})

NextCluster ==
    \/ CollectElement
    \/ RunColorAnalyzer

SpecCluster == InitCluster /\ [][NextCluster]_vars

\* position among the surviving colors, in first-seen order, of a hex
SurvivingIndex(surviving, hex) ==
    CHOOSE i \in 1..Len(surviving) : surviving[i].hex = hex

\* the i-th surviving color is considered before the j-th: it has the higher
\* count, or the same count and was seen first
ConsideredBefore(surviving, i, j) ==
    \/ surviving[i].count > surviving[j].count
    \/ surviving[i].count = surviving[j].count /\ i < j

\* the clusters whose centroid was considered before the i-th surviving color
\* and lies below the threshold from it
ClustersInReach(surviving, clusters, i) ==
    {c \in 1..Len(clusters) :
        /\ ConsideredBefore(surviving, SurvivingIndex(surviving, clusters[c].centroid.hex), i)
        /\ colorDistance(surviving[i].rgb, clusters[c].centroid.rgb) < 100 * 10}

\* of the clusters in reach of the i-th surviving color, those no other is
\* nearer than, and no equally near one was created before
NearestEarliest(surviving, clusters, i) ==
    {c \in ClustersInReach(surviving, clusters, i) :
        \A d \in ClustersInReach(surviving, clusters, i) \ {c} :
            LET toC == colorDistance(surviving[i].rgb, clusters[c].centroid.rgb)
                toD == colorDistance(surviving[i].rgb, clusters[d].centroid.rgb)
            IN  \/ toC < toD
                \/ /\ toC = toD
                   /\ ConsideredBefore(surviving,
                          SurvivingIndex(surviving, clusters[c].centroid.hex),
                          SurvivingIndex(surviving, clusters[d].centroid.hex))}

ClusterRadius ==
    ColorsReturned =>
        /\ \A c \in 1..Len(colors.all) :
              \A m \in 2..Len(colors.all[c].colors) :
                  colorDistance(colors.all[c].colors[m].rgb, colors.all[c].centroid.rgb)
                      < 100 * 10
        /\ \A c, d \in 1..Len(colors.all) :
              c # d => colorDistance(colors.all[c].centroid.rgb, colors.all[d].centroid.rgb)
                           >= 100 * 10

\* a palette with two clusters whose centroids are closer than 11, each
\* holding a color besides its centroid
ClusterRadiusWitness ==
    /\ ColorsReturned
    /\ \E c, d \in 1..Len(colors.all) :
          /\ c # d
          /\ Len(colors.all[c].colors) >= 2
          /\ Len(colors.all[d].colors) >= 2
          /\ colorDistance(colors.all[c].centroid.rgb, colors.all[d].centroid.rgb) < 100 * 11

(***************************************************************************)
(* The color analyzer over pages of colors of every role: purple, violet   *)
(* and mint lie in no hue band, red and dark red in the red band, dusty    *)
(* purple has saturation 0.2, grey and taupe are neutral with hues 0 and   *)
(* 30                                                                      *)
(***************************************************************************)
RoleElements ==
    {ColorElement(RgbPurple, RgbPurple, RgbPurple),
     ColorElement(RgbMint, RgbMint, RgbPurple),
     ColorElement(RgbViolet, RgbViolet, RgbViolet),
     ColorElement(RgbDarkRed, RgbDarkRed, RgbRed),
     ColorElement(RgbTaupe, RgbTaupe, RgbDusty),
     ColorElement(RgbGrey, RgbGrey, RgbGrey)}

InitRoles == InitWith(PagesOf(RoleElements, MaxElements), {<<>>})

NextRoles ==
    \/ CollectElement
    \/ RunColorAnalyzer

SpecRoles == InitRoles /\ [][NextRoles]_vars

\* the centroid's saturation, d / (2 - max - min) or d / (max + min), as the
\* fraction <<numerator, denominator>> over the channels 0..255
Saturation(cluster) ==
    LET rgb == cluster.centroid.rgb
        max == Max2(rgb.r, Max2(rgb.g, rgb.b))
        min == Min2(rgb.r, Min2(rgb.g, rgb.b))
    IN  IF max = min THEN <<0, 1>>
        ELSE IF max + min > 255 THEN <<max - min, 510 - max - min>>
        ELSE <<max - min, max + min>>

\* saturation below and above p hundredths
Desaturated(cluster, p) == 100 * Saturation(cluster)[1] < p * Saturation(cluster)[2]

Saturated(cluster, p) == 100 * Saturation(cluster)[1] > p * Saturation(cluster)[2]

\* the clusters listed in palette.neutrals
ListedNeutral(palette, cluster) ==
    \E n \in 1..Len(palette.neutrals) : palette.neutrals[n] = cluster

\* C22: a cluster of a returned palette is listed in palette.neutrals if and
\* only if the saturation of its centroid is below 0.15, whatever its hue and
\* its totalCount
NeutralIffDesaturated ==
    ColorsReturned =>
        \A c \in 1..Len(colors.all) :
            ListedNeutral(colors, colors.all[c]) <=> Desaturated(colors.all[c], 15)

\* a palette with a neutral of totalCount above 10 whose hue 0 lies in the red
\* band, the error slot being empty, and a cluster that is not neutral
NeutralIffDesaturatedWitness ==
    /\ ColorsReturned
    /\ colors.semantic.error = NoCluster
    /\ \E n \in 1..Len(colors.neutrals) :
          /\ colors.neutrals[n].totalCount > 10
          /\ isRedHue(rgbToHsl(colors.neutrals[n].centroid.rgb))
    /\ \E c \in 1..Len(colors.all) : ~ListedNeutral(colors, colors.all[c])

\* the semantic slots with the test of their hue band
InBand(slot, cluster) ==
    LET hsl == rgbToHsl(cluster.centroid.rgb)
    IN  CASE slot = "error" -> isRedHue(hsl)
          [] slot = "success" -> isGreenHue(hsl)
          [] slot = "warning" -> isYellowHue(hsl)
          [] slot = "info" -> isBlueHue(hsl)

SemanticSlots == {"error", "success", "warning", "info"}

\* the clusters of the palette, by position in palette.all, with saturation of
\* at least 0.15 and hue in the band of the slot
BandClusters(palette, slot) ==
    {c \in 1..Len(palette.all) :
        ~Desaturated(palette.all[c], 15) /\ InBand(slot, palette.all[c])}

\* the cluster holds one of primary, secondary, accent and neutrals
OtherRole(palette, cluster) ==
    \/ palette.primary = cluster
    \/ palette.secondary = cluster
    \/ \E a \in 1..Len(palette.accent) : palette.accent[a] = cluster
    \/ ListedNeutral(palette, cluster)

\* C23: palette.all is in descending totalCount order, and each semantic slot
\* holds the first cluster of palette.all with saturation >= 0.15 and hue in
\* the band of the slot, null when there is none; that cluster has no other
\* role
SemanticFirstMatch ==
    ColorsReturned =>
        /\ \A c, d \in 1..Len(colors.all) :
              c < d => colors.all[c].totalCount >= colors.all[d].totalCount
        /\ \A slot \in SemanticSlots :
              IF BandClusters(colors, slot) = {}
              THEN colors.semantic[slot] = NoCluster
              ELSE \E c \in BandClusters(colors, slot) :
                      /\ \A d \in BandClusters(colors, slot) : c <= d
                      /\ colors.semantic[slot] = colors.all[c]
                      /\ ~OtherRole(colors, colors.all[c])

\* a palette with two saturated clusters in the red band, the error slot
\* holding the more frequent one with a totalCount above 10 and the other one
\* being the secondary
SemanticFirstMatchWitness ==
    /\ ColorsReturned
    /\ Cardinality(BandClusters(colors, "error")) = 2
    /\ colors.semantic.error # NoCluster
    /\ colors.semantic.error.totalCount > 10
    /\ colors.secondary # NoCluster
    /\ InBand("error", colors.secondary)

\* C24: in every returned palette the primary, when set, has saturation above
\* 0.3 and totalCount above 10, the secondary, when set, has saturation above
\* 0.3 and totalCount above 5, and every accent has saturation above 0.5
RoleThresholds ==
    ColorsReturned =>
        /\ colors.primary # NoCluster =>
              Saturated(colors.primary, 30) /\ colors.primary.totalCount > 10
        /\ colors.secondary # NoCluster =>
              Saturated(colors.secondary, 30) /\ colors.secondary.totalCount > 5
        /\ \A a \in 1..Len(colors.accent) : Saturated(colors.accent[a], 50)

\* a palette with a primary, a secondary and an accent
RoleThresholdsWitness ==
    /\ ColorsReturned
    /\ colors.primary # NoCluster
    /\ colors.secondary # NoCluster
    /\ colors.accent # <<>>

(***************************************************************************)
(* The typography analyzer over pages on which one size is frequent: ten   *)
(* or eleven <li> of 13px and one of 14px, or none, followed by a few      *)
(* other elements                                                          *)
(***************************************************************************)
\* <p> 16px, <a> 18px, <h1> 15px, <small> 12px, <div> 20px, <h2> 19px
BaseElements ==
    {TypographyElement("P", <<"1","6","p","x">>),
     TypographyElement("A", <<"1","8","p","x">>),
     TypographyElement("H1", <<"1","5","p","x">>),
     TypographyElement("SMALL", <<"1","2","p","x">>),
     TypographyElement("DIV", <<"2","0","p","x">>),
     TypographyElement("H2", <<"1","9","p","x">>)}

ListItems(n) ==
    IF n = 0 THEN <<>>
    ELSE [i \in 1..n |-> TypographyElement("LI", <<"1","3","p","x">>)]
             \o <<TypographyElement("LI", <<"1","4","p","x">>)>>

BasePages ==
    {ListItems(n) \o rest :
        n \in {0, FrequentCount, FrequentCount + 1},
        rest \in PagesOf(BaseElements, MaxElements - 1)}

InitBase == InitWith(BasePages, {<<>>})

NextBase ==
    \/ CollectElement
    \/ RunTypographyAnalyzer

SpecBase == InitBase /\ [][NextBase]_vars

\* the collected elements whose font size is this raw value
ElementsOfSize(original) ==
    {e \in 1..Len(allElements) : allElements[e].computed.fontSize = original}

\* the sizes of allSizes, by position, that have a body or paragraph usage
\* context (an element with tag p, div, span or body) or are the size of more
\* than 10 elements
PreferredSizes(allSizes) ==
    {i \in 1..Len(allSizes) :
        \/ \E e \in ElementsOfSize(allSizes[i].original) :
              allElements[e].tagName \in {"P", "DIV", "SPAN", "BODY"}
        \/ Cardinality(ElementsOfSize(allSizes[i].original)) > 10}

\* the sizes of allSizes within 14..18 px
BandSizes(allSizes) ==
    {i \in 1..Len(allSizes) : allSizes[i].px >= 14 * Milli /\ allSizes[i].px <= 18 * Milli}

\* the buckets of the named rungs other than base, for ratio = px / basePx
InBucket(name, px, basePx) ==
    CASE name = "xs" -> 100 * px < 75 * basePx
      [] name = "sm" -> 100 * px >= 75 * basePx /\ 10 * px < 9 * basePx
      [] name = "lg" -> 10 * px > 11 * basePx /\ 100 * px <= 125 * basePx
      [] name = "xl" -> 100 * px > 125 * basePx /\ 10 * px <= 15 * basePx
      [] name = "xxl" -> 10 * px > 15 * basePx /\ px <= 2 * basePx
      [] name = "xxxl" -> px > 2 * basePx /\ 10 * px <= 25 * basePx
      [] name = "xxxxl" -> 10 * px > 25 * basePx

\* the sizes of allSizes, by position, in the bucket of a rung
BucketSizes(allSizes, name, basePx) ==
    {i \in 1..Len(allSizes) : InBucket(name, allSizes[i].px, basePx)}

\* each rung other than base holds the last size of its bucket, null when the
\* bucket is empty
RungsHoldLast(fontScale, basePx) ==
    \A name \in RungNames \ {"base"} :
        IF BucketSizes(fontScale.allSizes, name, basePx) = {}
        THEN fontScale[name] = Null
        ELSE \E i \in BucketSizes(fontScale.allSizes, name, basePx) :
                /\ \A j \in BucketSizes(fontScale.allSizes, name, basePx) :
                      j <= i /\ fontScale.allSizes[j].px <= fontScale.allSizes[i].px
                /\ fontScale[name] = fontScale.allSizes[i].original

BasePxOf(fontScale) ==
    IF fontScale.base = Null THEN 16 * Milli
    ELSE fontScale.allSizes[CHOOSE i \in 1..Len(fontScale.allSizes) :
                                fontScale.allSizes[i].original = fontScale.base].px

\* C26: each rung other than base holds the last, in ascending pixel order,
\* of the sizes of its bucket relative to the base, which is the largest of
\* them, and no rung other than base holds a size with ratio in [0.9, 1.1]
RungHoldsLargestOfBucket ==
    TypographyReturned =>
        LET fontScale == typography.fontScale
        IN  /\ RungsHoldLast(fontScale, BasePxOf(fontScale))
            /\ \A i \in 1..Len(fontScale.allSizes) :
                  (/\ 10 * fontScale.allSizes[i].px >= 9 * BasePxOf(fontScale)
                   /\ 10 * fontScale.allSizes[i].px <= 11 * BasePxOf(fontScale))
                  => \A name \in RungNames \ {"base"} :
                        fontScale[name] # fontScale.allSizes[i].original

\* a TypeScale with two sizes of different pixel values in one bucket and a
\* size other than the base with ratio in [0.9, 1.1]
RungHoldsLargestOfBucketWitness ==
    /\ TypographyReturned
    /\ LET fontScale == typography.fontScale
       IN  /\ \E name \in RungNames \ {"base"} :
                 \E i, j \in BucketSizes(fontScale.allSizes, name, BasePxOf(fontScale)) :
                     fontScale.allSizes[i].px < fontScale.allSizes[j].px
           /\ \E i \in 1..Len(fontScale.allSizes) :
                 /\ fontScale.allSizes[i].original # fontScale.base
                 /\ 10 * fontScale.allSizes[i].px >= 9 * BasePxOf(fontScale)
                 /\ 10 * fontScale.allSizes[i].px <= 11 * BasePxOf(fontScale)

(***************************************************************************)
(* The content script: START_ANALYSIS messages delivered at any time, each *)
(* handled by a call of handleStartAnalysis that runs up to its next await *)
(***************************************************************************)
Node(tagName, visible, children, shadow) ==
    [tagName |-> tagName, visible |-> visible, children |-> children, shadow |-> shadow]

\* <body> with n visible <div> children
FlatDom(n) ==
    [body |-> 1,
     nodes |-> [i \in 1..(n + 1) |->
                  IF i = 1 THEN Node("BODY", TRUE, [k \in 1..n |-> k + 1], <<>>)
                  ELSE Node("DIV", TRUE, <<>>, <<>>)]]

\* <body> with one custom element whose shadow root has n visible children
ShadowDom(n) ==
    [body |-> 1,
     nodes |-> [i \in 1..(n + 2) |->
                  IF i = 1 THEN Node("BODY", TRUE, <<2>>, <<>>)
                  ELSE IF i = 2 THEN Node("X-APP", TRUE, <<>>, [k \in 1..n |-> k + 2])
                  ELSE Node("DIV", TRUE, <<>>, <<>>)]]

\* a <body> whose rectangle has no height, with one child
HiddenBodyDom ==
    [body |-> 1,
     nodes |-> << Node("BODY", FALSE, <<2>>, <<>>), Node("DIV", TRUE, <<>>, <<>>) >>]

\* <body> with a <script>, a hidden <div> with a child, and a visible <div>
\* with a child and a shadow child
MixedDom ==
    [body |-> 1,
     nodes |-> << Node("BODY", TRUE, <<2, 3, 4>>, <<>>),
                  Node("SCRIPT", TRUE, <<>>, <<>>),
                  Node("DIV", FALSE, <<5>>, <<>>),
                  Node("DIV", TRUE, <<6>>, <<7>>),
                  Node("DIV", TRUE, <<>>, <<>>),
                  Node("DIV", TRUE, <<>>, <<>>),
                  Node("DIV", TRUE, <<>>, <<>>) >>]

ScriptDoms == {FlatDom(120), ShadowDom(60), HiddenBodyDom, MixedDom, NoBodyDom}

\* the stages whose call may throw in a behavior, 0 for none
ThrowStages == {0, 65, 95}

InitScript ==
    /\ document = <<>>
    /\ styleSheets = <<>>
    /\ allElements = <<>>
    /\ styleCache = NewStyleCache
    /\ ran = [a \in Analyzers |-> 0]
    /\ colors = NotRun
    /\ typography = NotRun
    /\ spacing = NotRun
    /\ values = <<>>
    /\ tolerance = 0
    /\ modularScale = NotRun
    /\ candidates = <<>>
    /\ baseUnit = NotRun
    /\ ScriptLoaded(ScriptDoms)

\* the catch block and finally: ANALYSIS_ERROR, sendResponse, isAnalyzing
Throw(r, sent) ==
    /\ outbox' = outbox \o Failed(sent)
    /\ responses' = [responses EXCEPT ![r] = Append(@, ErrorResponse)]
    /\ isAnalyzing' = AfterFinally(TRUE)
    /\ handlers' = [handlers EXCEPT ![r].pc = "done", ![r].walk = NoWalk]

\* the end of the try block and finally: ANALYSIS_COMPLETE, sendResponse,
\* isAnalyzing
Return(r, sent) ==
    /\ outbox' = outbox \o Completed(sent, handlers[r].elementCount)
    /\ responses' = [responses EXCEPT ![r] = Append(@, SuccessResponse)]
    /\ isAnalyzing' = AfterFinally(FALSE)
    /\ handlers' = [handlers EXCEPT ![r].pc = "done", ![r].walk = NoWalk]

\* the walk awaits the next idle period
Await(r, w) ==
    /\ outbox' = outbox \o w.sent
    /\ handlers' = [handlers EXCEPT ![r].walk = w]
    /\ UNCHANGED <<isAnalyzing, responses>>

\* the listener receives the next START_ANALYSIS message and calls
\* handleStartAnalysis, which answers at once or runs up to the first
\* waitForIdle of domWalker.count
ReceiveStartAnalysis(r) ==
    /\ handlers[r].pc = "unsent"
    /\ \A q \in Requests : q < r => handlers[q].pc # "unsent"
    /\ IF AlreadyInProgress(isAnalyzing)
       THEN /\ responses' = [responses EXCEPT ![r] = Append(@, BusyResponse)]
            /\ handlers' = [handlers EXCEPT ![r].pc = "rejected"]
            /\ UNCHANGED <<isAnalyzing, outbox>>
       ELSE /\ isAnalyzing' = TRUE
            /\ outbox' = sendProgress(outbox, 10)
            /\ handlers' = [handlers EXCEPT ![r].pc = "counting", ![r].walk = NewWalk(dom)]
            /\ UNCHANGED responses
    /\ UNCHANGED dom
    /\ UNCHANGED <<pageVars, matcherVars>>

\* the handler after an iteration of the walk of domWalker.count: when the
\* queue is empty count returns, sendProgress(20) is called and domWalker.walk
\* runs up to its first waitForIdle
AfterCountIteration(r, w) ==
    IF w.threw THEN Throw(r, <<>>)
    ELSE IF w.queue # <<>> THEN Await(r, w)
    ELSE /\ outbox' = sendProgress(outbox, 20)
         /\ handlers' = [handlers EXCEPT ![r].pc = "walking", ![r].walk = NewWalk(dom),
                                         ![r].elementCount = w.processed]
         /\ UNCHANGED <<isAnalyzing, responses>>

\* an idle period during domWalker.count
CountBatch(r) ==
    /\ handlers[r].pc = "counting"
    /\ AfterCountIteration(r, WalkIteration(dom, handlers[r].walk, FALSE))
    /\ UNCHANGED dom
    /\ UNCHANGED <<pageVars, matcherVars>>

\* the handler after the stages that follow the walk
AfterStages(r, stages) ==
    IF stages.threw THEN Throw(r, stages.sent) ELSE Return(r, stages.sent)

\* the handler after an iteration of domWalker.walk: when the queue is empty
\* the rest of the try block runs without another await
AfterWalkIteration(r, w, throwsAt) ==
    IF w.threw THEN Throw(r, w.sent)
    ELSE IF w.queue # <<>> THEN Await(r, w)
    ELSE AfterStages(r, AfterWalk(w, throwsAt))

\* an idle period during domWalker.walk
WalkBatch(r) ==
    /\ handlers[r].pc = "walking"
    /\ \E throwsAt \in ThrowStages :
          AfterWalkIteration(r, WalkIteration(dom, handlers[r].walk, TRUE), throwsAt)
    /\ UNCHANGED dom
    /\ UNCHANGED <<pageVars, matcherVars>>

NextScript ==
    \E r \in Requests :
        \/ ReceiveStartAnalysis(r)
        \/ CountBatch(r)
        \/ WalkBatch(r)

SpecScript == InitScript /\ [][NextScript]_vars

\* the idle period a walk is waiting for
IdlePeriod == \E r \in Requests : CountBatch(r) \/ WalkBatch(r)

\* requestIdleCallback with a timeout of 100 ms, or setTimeout, resolves
\* every waitForIdle
SpecScriptLive == SpecScript /\ WF_vars(IdlePeriod)

\* the calls of handleStartAnalysis that are between isAnalyzing = true and
\* the end of their try statement
Running == {r \in Requests : handlers[r].pc \in {"counting", "walking"}}

\* C28: at most one call of handleStartAnalysis is running at any time, and a
\* START_ANALYSIS message received while isAnalyzing is true is answered
\* with {success: false, error: 'Analysis already in progress'}, starts no
\* run, sends no message and leaves isAnalyzing and the running call as they
\* are
OneRunAtATime ==
    /\ [](Cardinality(Running) <= 1)
    /\ [][\A r \in Requests :
            (handlers[r].pc = "unsent" /\ handlers'[r].pc # "unsent" /\ isAnalyzing)
            => /\ responses' = [responses EXCEPT ![r] = <<BusyResponse>>]
               /\ handlers' = [handlers EXCEPT ![r].pc = "rejected"]
               /\ Running' = Running
               /\ isAnalyzing'
               /\ outbox' = outbox]_vars

\* a message has been rejected while a run was between two batches of its
\* walk, and the run has gone on since
OneRunAtATimeWitness ==
    \E r, q \in Requests :
        /\ handlers[q].pc = "rejected"
        /\ responses[q] = <<BusyResponse>>
        /\ handlers[r].pc = "walking"
        /\ handlers[r].walk.processed > 100
        /\ isAnalyzing

\* the terminal messages of the outbox
Terminal(messages) ==
    SelectSeq(messages, LAMBDA m : m.type \in {"ANALYSIS_COMPLETE", "ANALYSIS_ERROR"})

\* C29: every accepted run eventually ends with isAnalyzing false; the step
\* that ends it calls sendResponse once, for the first time for that message,
\* and sends one terminal message, ANALYSIS_COMPLETE with a success response
\* and ANALYSIS_ERROR with a failure response; no other step of the run
\* responds or sends a terminal message, and a START_ANALYSIS message
\* received when no run is in progress is accepted
EveryRunEnds ==
    /\ \A r \in Requests :
          (r \in Running) ~> (handlers[r].pc = "done" /\ ~isAnalyzing)
    /\ [][\A r \in Running :
            IF handlers'[r].pc = "done"
            THEN /\ ~isAnalyzing'
                 /\ responses[r] = <<>>
                 /\ Len(responses'[r]) = 1
                 /\ Len(outbox') > Len(outbox)
                 /\ Len(Terminal(outbox')) = Len(Terminal(outbox)) + 1
                 /\ outbox'[Len(outbox')].type =
                        (IF responses'[r][1].success THEN "ANALYSIS_COMPLETE"
                         ELSE "ANALYSIS_ERROR")
            ELSE /\ responses'[r] = <<>>
                 /\ Terminal(outbox') = Terminal(outbox)]_vars
    /\ [][\A r \in Requests :
            (handlers[r].pc = "unsent" /\ handlers'[r].pc # "unsent" /\ Running = {})
            => r \in Running']_vars

\* a run that threw has ended and the next message has been accepted and has
\* ended with success
EveryRunEndsWitness ==
    \E r, q \in Requests :
        /\ r < q
        /\ handlers[r].pc = "done"
        /\ responses[r] = <<ErrorResponse>>
        /\ handlers[q].pc = "done"
        /\ responses[q] = <<SuccessResponse>>
        /\ Len(Terminal(outbox)) = 2
        /\ ~isAnalyzing

\* C30: every ANALYSIS_PROGRESS message sent carries a progress value within
\* 0..100
ProgressInRange ==
    \A i \in 1..Len(outbox) :
        outbox[i].type = "ANALYSIS_PROGRESS" => outbox[i].progress \in 0..100

========================================================================
